---- MODULE Spec2Model ----
(***************************************************************************)
(* Access-control and entity-lifecycle layer of the project-management     *)
(* REST API: the document stores (users, projects, tasks, sprints), the    *)
(* route middleware (protect, isProjectManager) and the controllers of the *)
(* project, task and sprint routers.  A request is one action, except      *)
(* where a handler reads, awaits and then writes from what it read         *)
(* (addMember, createTask, updateTaskStatus) or writes twice               *)
(* (deleteProject, deleteSprint): there the continuation is kept in        *)
(* `inflight` and runs as a second step, so other requests interleave      *)
(* between the two store operations.  The notification router works on     *)
(* the notifications of the principal alone.                               *)
(* `last` is the response of the request that has just been answered.      *)
(***************************************************************************)
EXTENDS Integers, Sequences, FiniteSets, TLC

VARIABLES users, notifications, projects, tasks, sprints, inflight, last

vars == <<users, notifications, projects, tasks, sprints, inflight, last>>
store == <<users, notifications, projects, tasks, sprints>>

----------------------------------------------------------------------------
(* Values of the schemas *)

Users == {"u1", "u2", "u3"}
PM == "Project Manager"
TM == "Team Member"
Roles == {PM, TM}
\* a request body is a record that holds the fields the request supplies:
\* a field that is absent reads as undefined
has(body, f) == f \in DOMAIN body
get(body, f, default) == IF f \in DOMAIN body THEN body[f] ELSE default
\* the null sprint reference of a task, and its null assignee
Null == 0
NullUser == "null"

TaskStatuses == {"To Do", "In Progress", "Review", "Done"}
Priorities == {"Low", "Medium", "High"}

\* Every field of a task that updateTask can be asked to change.
AllTaskFields == {"title", "description", "status", "priority", "assignedTo",
                  "dueDate", "sprint", "estimatedHours", "actualHours"}
MemberTaskFields == {"status", "actualHours"}

----------------------------------------------------------------------------
(* Bounds of the model *)

MaxTasks == 2
MaxMembers == 3
MaxNotifications == 2
MaxInflight == 2
\* the comments of one task
MaxComments == 2
\* the tasks of the project whose completion rate is reported
MaxTotal == 40

----------------------------------------------------------------------------
(* Middleware *)

\* protect without the test of isActive
protectAnyStored(u) == u \in DOMAIN users

\* protect: the token names a stored user who is active
protect(u) == u \in DOMAIN users /\ users[u].isActive

\* isProjectManager: the global role of the principal
isProjectManager(u) == users[u].role = PM

\* The middleware chain in front of a handler: 0 when the request reaches
\* the handler, else the status the chain answers with.
RouteGate(u, managerOnly) ==
  IF ~protect(u) THEN 401
  ELSE IF managerOnly /\ ~isProjectManager(u) THEN 403
  ELSE 0

RouteMsg(code) == IF code = 401 THEN "inactive" ELSE "role"

----------------------------------------------------------------------------
(* Access checks of the controllers *)

isMember(project, u) ==
  \E i \in DOMAIN project.members : project.members[i].user = u

isCreator(project, u) == project.createdBy = u

isPM(project, u) ==
  \E i \in DOMAIN project.members :
    project.members[i].user = u /\ project.members[i].role = PM

----------------------------------------------------------------------------
(* Responses *)

\* the overview of a dashboard answer with every count and rate 0 and no
\* group: the overview of an answer that carries none
NoOverview ==
  [totalProjects |-> 0, totalTasks |-> 0, completedTasks |-> 0, myTasks |-> 0,
   myCompletedTasks |-> 0, delayedTasks |-> 0, activeSprints |-> 0,
   recentTasks |-> 0, completionRate |-> 0, myCompletionRate |-> 0,
   tasksByStatus |-> {}, tasksByPriority |-> {}]

\* res.status(code).json(...): the answer to request `op` of principal u on
\* document id (and on user `about`, in the member routes)
RespondAbout(op, u, id, about, code, msg) ==
  last' = [op |-> op, by |-> u, id |-> id, about |-> about,
           code |-> code, msg |-> msg, data |-> 0, overview |-> NoOverview]

Respond(op, u, id, code, msg) == RespondAbout(op, u, id, "-", code, msg)

\* an answer that leaves every store and every request in flight alone
RejectAbout(op, u, id, about, code, msg) ==
  /\ RespondAbout(op, u, id, about, code, msg)
  /\ UNCHANGED <<users, notifications, projects, tasks, sprints, inflight>>

Reject(op, u, id, code, msg) == RejectAbout(op, u, id, "-", code, msg)

\* the answer of a statistics route: 200 with the completion rate it reports
Report(op, u, id, rate) ==
  /\ last' = [op |-> op, by |-> u, id |-> id, about |-> "-",
              code |-> 200, msg |-> "ok", data |-> rate, overview |-> NoOverview]
  /\ UNCHANGED <<users, notifications, projects, tasks, sprints, inflight>>

\* the status the error middleware answers a thrown error with
errorHandler(err) == IF err = "ValidationError" THEN 400 ELSE 500

\* asyncHandler: the promise of handler `op` was rejected with err, which
\* goes to next(err); the error middleware sends this answer
Thrown(op, u, id, err) ==
  [op |-> op, by |-> u, id |-> id, about |-> "-",
   code |-> errorHandler(err), msg |-> err, data |-> 0, overview |-> NoOverview]

RemoveAt(s, i) == [j \in 1..(Len(s) - 1) |-> IF j < i THEN s[j] ELSE s[j + 1]]

----------------------------------------------------------------------------
(* Number arithmetic.  The operands of a completion rate are JavaScript    *)
(* Numbers, IEEE 754 binary64: every quotient and every product is rounded *)
(* to the nearest Number of Precision significant bits, a tie to the even  *)
(* significand.  A Number that is not zero is kept as digits / 2^scale,    *)
(* digits a natural number in base Base, least significant digit first.    *)

\* the bits of the significand of a binary64 Number
Precision == 53
\* the bits of one digit
LimbBits == 9

RECURSIVE pow2(_)
pow2(n) == IF n = 0 THEN 1 ELSE 2 * pow2(n - 1)

Base == pow2(LimbBits)

Zero == [digits |-> <<>>, scale |-> 0]

\* the digits ds with carry c added at the low end, every digit below Base
RECURSIVE carry(_, _)
carry(ds, c) ==
  IF ds = <<>>
  THEN IF c = 0 THEN <<>> ELSE <<c % Base>> \o carry(<<>>, c \div Base)
  ELSE <<(Head(ds) + c) % Base>> \o carry(Tail(ds), (Head(ds) + c) \div Base)

RECURSIVE toInt(_)
toInt(ds) == IF ds = <<>> THEN 0 ELSE Head(ds) + Base * toInt(Tail(ds))

RECURSIVE bitLen(_)
bitLen(n) == IF n = 0 THEN 0 ELSE 1 + bitLen(n \div 2)

\* the number of bits of the natural number ds, its top digit not zero
bitLength(ds) == LimbBits * (Len(ds) - 1) + bitLen(ds[Len(ds)])

\* n more digits of the quotient by t, from the remainder rem
RECURSIVE divDigits(_, _, _)
divDigits(rem, n, t) ==
  IF n = 0 THEN <<>>
  ELSE divDigits((rem * Base) % t, n - 1, t) \o <<(rem * Base) \div t>>

\* the remainder those n digits leave
RECURSIVE divRem(_, _, _)
divRem(rem, n, t) ==
  IF n = 0 THEN rem ELSE divRem((rem * Base) % t, n - 1, t)

\* the smallest s with c * 2^s >= t
RECURSIVE normShift(_, _)
normShift(c, t) == IF c >= t THEN 0 ELSE 1 + normShift(2 * c, t)

\* Round the natural number ds to Precision significant bits; sticky tells
\* that the exact value lies above ds.  The bits dropped lie in the lowest
\* digit: a quotient is taken to one bit more than Precision, and a product
\* by a factor below 2^(LimbBits - 2) has at most LimbBits - 1 bits more.
roundToNearest(ds, sticky) ==
  LET d == bitLength(ds) - Precision
      m == pow2(d)
      low == ds[1] % m
      odd == (ds[1] \div m) % 2 = 1
      up == low * 2 > m \/ (low * 2 = m /\ (sticky \/ odd))
  IN IF d <= 0 THEN ds
     ELSE carry([ds EXCEPT ![1] = @ - low + (IF up THEN m ELSE 0)], 0)

\* completed / total of two counts, 0 <= completed <= total, 0 < total:
\* the quotient floor(completed * 2^scale / total) has Precision + 1 bits
divide(completed, total) ==
  IF completed = 0 THEN Zero
  ELSE LET scale == normShift(completed, total) + Precision
           top == completed * pow2(scale % LimbBits)
           q == divDigits(top % total, scale \div LimbBits, total)
           rem == divRem(top % total, scale \div LimbBits, total)
       IN [digits |-> roundToNearest(q \o <<top \div total>>, rem # 0),
           scale |-> scale]

\* x * n for a small integer n
times(x, n) ==
  [digits |-> IF x.digits = <<>> THEN <<>>
              ELSE roundToNearest(
                     carry([i \in DOMAIN x.digits |-> x.digits[i] * n], 0),
                     FALSE),
   scale |-> x.scale]

\* Math.round: the nearest integer, the greater one of two equally near,
\* floor(x + 1/2)
MathRound(x) ==
  IF x.digits = <<>> THEN 0
  ELSE LET at == (x.scale - 1) \div LimbBits + 1
           n == IF Len(x.digits) > at THEN Len(x.digits) ELSE at
           padded == [i \in 1..n |-> IF i <= Len(x.digits) THEN x.digits[i] ELSE 0]
           sum == carry([padded EXCEPT
                           ![at] = @ + pow2((x.scale - 1) % LimbBits)], 0)
       IN toInt(SubSeq(sum, x.scale \div LimbBits + 1, Len(sum)))
            \div pow2(x.scale % LimbBits)

\* totalTasks > 0 ? Math.round((completedTasks / totalTasks) * 100) : 0
completionRate(completedTasks, totalTasks) ==
  IF totalTasks > 0
  THEN MathRound(times(divide(completedTasks, totalTasks), 100))
  ELSE 0

----------------------------------------------------------------------------
(* Project controller *)

\* supplied without the test that skips the creator
RECURSIVE suppliedAll(_, _)
suppliedAll(u, ms) ==
  IF ms = <<>> THEN <<>>
  ELSE <<[user |-> Head(ms).user,
          role |-> get(Head(ms), "role", TM)]>> \o suppliedAll(u, Tail(ms))

\* the member entries createProject builds from the request's members array
RECURSIVE supplied(_, _)
supplied(u, ms) ==
  IF ms = <<>> THEN <<>>
  ELSE LET m == Head(ms)
           rest == supplied(u, Tail(ms))
       IN IF m.user # u
          THEN <<[user |-> m.user,
                  role |-> get(m, "role", TM)]>> \o rest
          ELSE rest

\* projectMembers with every supplied entry pushed
projectMembersAll(u, ms) == <<[user |-> u, role |-> PM]>> \o suppliedAll(u, ms)

projectMembers(u, ms) == <<[user |-> u, role |-> PM]>> \o supplied(u, ms)

\* the body of a createProject request that supplies the members ms
withMembers(ms) == [name |-> "n0", members |-> ms]

\* GET /projects/:id
getProject(u, p) ==
  LET g == RouteGate(u, FALSE) IN
  IF g # 0 THEN Reject("getProject", u, p, g, RouteMsg(g))
  ELSE IF p \notin DOMAIN projects
  THEN Reject("getProject", u, p, 404, "project")
  ELSE IF ~isMember(projects[p], u) /\ ~isCreator(projects[p], u)
  THEN Reject("getProject", u, p, 403, "access")
  ELSE Reject("getProject", u, p, 200, "ok")

\* the tasks Task.countDocuments({project, isActive: true}) counts
projectTasks(p) ==
  {t \in DOMAIN tasks : tasks[t].project = p /\ tasks[t].isActive}

\* the tasks of T the group of status 'Done' counts
Done(T) == {t \in T : tasks[t].status = "Done"}

\* GET /projects/:id/stats
getProjectStats(u, p) ==
  LET g == RouteGate(u, FALSE) IN
  IF g # 0 THEN Reject("getProjectStats", u, p, g, RouteMsg(g))
  ELSE IF p \notin DOMAIN projects
  THEN Reject("getProjectStats", u, p, 404, "project")
  ELSE IF ~isMember(projects[p], u) /\ ~isCreator(projects[p], u)
  THEN Reject("getProjectStats", u, p, 403, "access")
  ELSE Report("getProjectStats", u, p,
              completionRate(Cardinality(Done(projectTasks(p))),
                             Cardinality(projectTasks(p))))

\* createProject on a route that lets every authenticated user through
createProjectUngated(u, body) ==
  LET g == RouteGate(u, FALSE) IN
  IF g # 0 THEN Reject("createProject", u, 0, g, RouteMsg(g))
  ELSE /\ projects' = Append(projects,
                        [createdBy |-> u,
                         members   |-> projectMembers(u, get(body, "members", <<>>)),
                         name      |-> body.name,
                         status    |-> get(body, "status", "Planning"),
                         isActive  |-> TRUE])
       /\ Respond("createProject", u, Len(projects) + 1, 201, "ok")
       /\ UNCHANGED <<users, notifications, tasks, sprints, inflight>>

\* POST /projects
createProject(u, body) ==
  LET g == RouteGate(u, TRUE) IN
  IF g # 0 THEN Reject("createProject", u, 0, g, RouteMsg(g))
  ELSE /\ projects' = Append(projects,
                        [createdBy |-> u,
                         members   |-> projectMembers(u, get(body, "members", <<>>)),
                         name      |-> body.name,
                         status    |-> get(body, "status", "Planning"),
                         isActive  |-> TRUE])
       /\ Respond("createProject", u, Len(projects) + 1, 201, "ok")
       /\ UNCHANGED <<users, notifications, tasks, sprints, inflight>>

\* projectUpdateFields that also copies isActive from the body
projectUpdateFieldsWithFlag(project, body) ==
  [f \in DOMAIN project |->
     IF f \in {"name", "status", "isActive"} /\ has(body, f)
     THEN body[f] ELSE project[f]]

\* the fields updateProject copies from the body: a field that is absent
\* (or falsy) is left out
projectUpdateFields(project, body) ==
  [f \in DOMAIN project |->
     IF f \in {"name", "status"} /\ has(body, f)
     THEN body[f] ELSE project[f]]

\* PUT /projects/:id
updateProject(u, p, body) ==
  LET g == RouteGate(u, TRUE) IN
  IF g # 0 THEN Reject("updateProject", u, p, g, RouteMsg(g))
  ELSE IF p \notin DOMAIN projects
  THEN Reject("updateProject", u, p, 404, "project")
  ELSE IF ~isCreator(projects[p], u) /\ ~isPM(projects[p], u)
  THEN Reject("updateProject", u, p, 403, "manager")
  ELSE /\ projects' = [projects EXCEPT ![p] = projectUpdateFields(@, body)]
       /\ Respond("updateProject", u, p, 200, "ok")
       /\ UNCHANGED <<users, notifications, tasks, sprints, inflight>>

\* deleteProject with the check updateProject makes: the creator or a
\* member with the Project Manager project-role
deleteProjectByManagers(u, p) ==
  LET g == RouteGate(u, TRUE) IN
  IF g # 0 THEN Reject("deleteProject", u, p, g, RouteMsg(g))
  ELSE IF p \notin DOMAIN projects
  THEN Reject("deleteProject", u, p, 404, "project")
  ELSE IF ~isCreator(projects[p], u) /\ ~isPM(projects[p], u)
  THEN Reject("deleteProject", u, p, 403, "creator")
  ELSE /\ projects' = [projects EXCEPT ![p].isActive = FALSE]
       /\ inflight' = Append(inflight,
                        [op |-> "deleteProject", by |-> u, id |-> p, arg |-> 0])
       /\ UNCHANGED <<users, notifications, tasks, sprints, last>>

\* DELETE /projects/:id, up to project.save(): the cascade is the
\* continuation deleteProjectCascade
deleteProject(u, p) ==
  LET g == RouteGate(u, TRUE) IN
  IF g # 0 THEN Reject("deleteProject", u, p, g, RouteMsg(g))
  ELSE IF p \notin DOMAIN projects
  THEN Reject("deleteProject", u, p, 404, "project")
  ELSE IF projects[p].createdBy # u
  THEN Reject("deleteProject", u, p, 403, "creator")
  ELSE /\ projects' = [projects EXCEPT ![p].isActive = FALSE]
       /\ inflight' = Append(inflight,
                        [op |-> "deleteProject", by |-> u, id |-> p, arg |-> 0])
       /\ UNCHANGED <<users, notifications, tasks, sprints, last>>

\* the cascade without its filter: every task is deactivated
deleteProjectCascadeAll(i) ==
  /\ i \in DOMAIN inflight
  /\ inflight[i].op = "deleteProject"
  /\ LET r == inflight[i] IN
       /\ tasks' = [t \in DOMAIN tasks |-> [tasks[t] EXCEPT !.isActive = FALSE]]
       /\ Respond("deleteProject", r.by, r.id, 200, "ok")
  /\ inflight' = RemoveAt(inflight, i)
  /\ UNCHANGED <<users, notifications, projects, sprints>>

\* Task.updateMany({project}, {isActive: false}) and the answer
deleteProjectCascade(i) ==
  /\ i \in DOMAIN inflight
  /\ inflight[i].op = "deleteProject"
  /\ LET r == inflight[i] IN
       /\ tasks' = [t \in DOMAIN tasks |->
                      IF tasks[t].project = r.id
                      THEN [tasks[t] EXCEPT !.isActive = FALSE]
                      ELSE tasks[t]]
       /\ Respond("deleteProject", r.by, r.id, 200, "ok")
  /\ inflight' = RemoveAt(inflight, i)
  /\ UNCHANGED <<users, notifications, projects, sprints>>

\* deleteProject when project.save() is rejected by the database: nothing
\* is stored
deleteProjectSaveFails(u, p) ==
  /\ RouteGate(u, TRUE) = 0
  /\ p \in DOMAIN projects
  /\ projects[p].createdBy = u
  /\ last' = Thrown("deleteProject", u, p, "MongoError")
  /\ UNCHANGED <<users, notifications, projects, tasks, sprints, inflight>>

\* the continuation when Task.updateMany is rejected by the database: the
\* project stays inactive, its tasks stay as they are
deleteProjectCascadeFails(i) ==
  /\ i \in DOMAIN inflight
  /\ inflight[i].op = "deleteProject"
  /\ last' = Thrown("deleteProject", inflight[i].by, inflight[i].id, "MongoError")
  /\ inflight' = RemoveAt(inflight, i)
  /\ UNCHANGED <<users, notifications, projects, tasks, sprints>>

\* addMember without the check that the user is already a member
addMemberUnchecked(u, p, body) ==
  LET g == RouteGate(u, TRUE) IN
  IF g # 0 THEN RejectAbout("addMember", u, p, body.userId, g, RouteMsg(g))
  ELSE IF p \notin DOMAIN projects
  THEN RejectAbout("addMember", u, p, body.userId, 404, "project")
  ELSE IF ~isCreator(projects[p], u) /\ ~isPM(projects[p], u)
  THEN RejectAbout("addMember", u, p, body.userId, 403, "manager")
  ELSE /\ inflight' = Append(inflight,
                        [op |-> "addMember", by |-> u, id |-> p,
                         arg |-> [user |-> body.userId,
                                  role |-> get(body, "role", TM)]])
       /\ UNCHANGED <<users, notifications, projects, tasks, sprints, last>>

\* POST /projects/:id/members, up to the membership check: pushing the
\* entry and saving is the continuation addMemberSave
addMember(u, p, body) ==
  LET g == RouteGate(u, TRUE) IN
  IF g # 0 THEN RejectAbout("addMember", u, p, body.userId, g, RouteMsg(g))
  ELSE IF p \notin DOMAIN projects
  THEN RejectAbout("addMember", u, p, body.userId, 404, "project")
  ELSE IF ~isCreator(projects[p], u) /\ ~isPM(projects[p], u)
  THEN RejectAbout("addMember", u, p, body.userId, 403, "manager")
  ELSE IF isMember(projects[p], body.userId)
  THEN RejectAbout("addMember", u, p, body.userId, 400, "already")
  ELSE /\ inflight' = Append(inflight,
                        [op |-> "addMember", by |-> u, id |-> p,
                         arg |-> [user |-> body.userId,
                                  role |-> get(body, "role", TM)]])
       /\ UNCHANGED <<users, notifications, projects, tasks, sprints, last>>

\* project.members.push(entry); project.save(): the entry is pushed onto
\* the stored array, whatever it holds by now
addMemberSave(i) ==
  /\ i \in DOMAIN inflight
  /\ inflight[i].op = "addMember"
  /\ LET r == inflight[i] IN
       /\ projects' = [projects EXCEPT ![r.id].members = Append(@, r.arg)]
       /\ RespondAbout("addMember", r.by, r.id, r.arg.user, 200, "ok")
  /\ inflight' = RemoveAt(inflight, i)
  /\ UNCHANGED <<users, notifications, tasks, sprints>>

\* the array removeMember stores: the entries whose user is not the target
withoutMember(members, userId) ==
  LET Keep(m) == m.user # userId IN SelectSeq(members, Keep)

\* removeMember without the refusal to remove the creator
removeMemberAnyone(u, p, userId) ==
  LET g == RouteGate(u, TRUE) IN
  IF g # 0 THEN RejectAbout("removeMember", u, p, userId, g, RouteMsg(g))
  ELSE IF p \notin DOMAIN projects
  THEN RejectAbout("removeMember", u, p, userId, 404, "project")
  ELSE IF ~isCreator(projects[p], u) /\ ~isPM(projects[p], u)
  THEN RejectAbout("removeMember", u, p, userId, 403, "manager")
  ELSE /\ projects' = [projects EXCEPT
                         ![p].members = withoutMember(@, userId)]
       /\ RespondAbout("removeMember", u, p, userId, 200, "ok")
       /\ UNCHANGED <<users, notifications, tasks, sprints, inflight>>

\* DELETE /projects/:id/members/:userId.  The save replaces the whole
\* array under the document's version, so it takes effect only on the
\* array it read: one step.
removeMember(u, p, userId) ==
  LET g == RouteGate(u, TRUE) IN
  IF g # 0 THEN RejectAbout("removeMember", u, p, userId, g, RouteMsg(g))
  ELSE IF p \notin DOMAIN projects
  THEN RejectAbout("removeMember", u, p, userId, 404, "project")
  ELSE IF ~isCreator(projects[p], u) /\ ~isPM(projects[p], u)
  THEN RejectAbout("removeMember", u, p, userId, 403, "manager")
  ELSE IF projects[p].createdBy = userId
  THEN RejectAbout("removeMember", u, p, userId, 400, "creator")
  ELSE /\ projects' = [projects EXCEPT
                         ![p].members = withoutMember(@, userId)]
       /\ RespondAbout("removeMember", u, p, userId, 200, "ok")
       /\ UNCHANGED <<users, notifications, tasks, sprints, inflight>>

----------------------------------------------------------------------------
(* Task controller *)

\* the project a task is reached through
projectOf(t) == projects[tasks[t].project]

\* GET /tasks/project/:projectId
getTasks(u, p) ==
  LET g == RouteGate(u, FALSE) IN
  IF g # 0 THEN Reject("getTasks", u, p, g, RouteMsg(g))
  ELSE IF p \notin DOMAIN projects
  THEN Reject("getTasks", u, p, 404, "project")
  ELSE IF ~isMember(projects[p], u) /\ ~isCreator(projects[p], u)
  THEN Reject("getTasks", u, p, 403, "access")
  ELSE Reject("getTasks", u, p, 200, "ok")

\* GET /tasks/:id
getTask(u, t) ==
  LET g == RouteGate(u, FALSE) IN
  IF g # 0 THEN Reject("getTask", u, t, g, RouteMsg(g))
  ELSE IF t \notin DOMAIN tasks
  THEN Reject("getTask", u, t, 404, "task")
  ELSE IF ~isMember(projectOf(t), u) /\ ~isCreator(projectOf(t), u)
  THEN Reject("getTask", u, t, 403, "access")
  ELSE Reject("getTask", u, t, 200, "ok")

Max(S) == CHOOSE x \in S : \A y \in S : y <= x

\* a position that counts the tasks of the project
nextPositionCount(p) ==
  Cardinality({x \in DOMAIN tasks : tasks[x].project = p})

\* Task.findOne({project}).sort('-position'): the position createTask
\* gives the next task of the project
nextPosition(p) ==
  LET ps == {tasks[t].position : t \in {x \in DOMAIN tasks : tasks[x].project = p}}
  IN IF ps = {} THEN 0 ELSE Max(ps) + 1

\* the document Task.create stores
newTask(u, p, body, position) ==
  [title          |-> body.title,
   description    |-> body.description,
   project        |-> p,
   priority       |-> get(body, "priority", "Medium"),
   status         |-> get(body, "status", "To Do"),
   assignedTo     |-> get(body, "assignedTo", NullUser),
   createdBy      |-> u,
   dueDate        |-> body.dueDate,
   sprint         |-> get(body, "sprint", Null),
   estimatedHours |-> get(body, "estimatedHours", 0),
   actualHours    |-> 0,
   comments       |-> <<>>,
   position       |-> position,
   isActive       |-> TRUE]

\* POST /tasks/project/:projectId, up to the read of the highest position:
\* Task.create is the continuation createTaskSave
createTask(u, p, body) ==
  LET g == RouteGate(u, TRUE) IN
  IF g # 0 THEN Reject("createTask", u, p, g, RouteMsg(g))
  ELSE IF p \notin DOMAIN projects
  THEN Reject("createTask", u, p, 404, "project")
  ELSE /\ inflight' = Append(inflight,
                        [op |-> "createTask", by |-> u, id |-> p,
                         arg |-> newTask(u, p, body, nextPosition(p))])
       /\ UNCHANGED <<users, notifications, projects, tasks, sprints, last>>

createTaskSave(i) ==
  /\ i \in DOMAIN inflight
  /\ inflight[i].op = "createTask"
  /\ LET r == inflight[i] IN
       /\ tasks' = Append(tasks, r.arg)
       /\ Respond("createTask", r.by, r.id, 201, "ok")
  /\ inflight' = RemoveAt(inflight, i)
  /\ UNCHANGED <<users, notifications, projects, sprints>>

\* updateTask with every field allowed to every principal
allowedFieldsAll(u, project) == AllTaskFields

\* the fields updateTask lets the principal change
allowedFields(u, project) ==
  IF users[u].role = PM \/ isPM(project, u)
  THEN AllTaskFields
  ELSE MemberTaskFields

\* updateFields that copies every field of the body
updateFieldsUnfiltered(body, allowed) == body

\* updateFields: the allowed fields that the body supplies
updateFields(body, allowed) == [f \in allowed \cap DOMAIN body |-> body[f]]

\* the validators of the task schema that runValidators applies to the
\* fields of the update
taskValidators(update) ==
  /\ has(update, "title") => Len(update.title) >= 3 /\ Len(update.title) <= 200
  /\ has(update, "description") => Len(update.description) <= 2000
  /\ has(update, "status") => update.status \in TaskStatuses
  /\ has(update, "priority") => update.priority \in Priorities
  /\ has(update, "estimatedHours") => update.estimatedHours >= 0
  /\ has(update, "actualHours") => update.actualHours >= 0

\* the task with the update applied
taskUpdateFields(task, update) ==
  [f \in DOMAIN task |-> IF f \in DOMAIN update THEN update[f] ELSE task[f]]

\* updateTask that writes the update before its validators run
updateTaskLateValidators(u, t, body) ==
  LET g == RouteGate(u, FALSE) IN
  IF g # 0 THEN Reject("updateTask", u, t, g, RouteMsg(g))
  ELSE IF t \notin DOMAIN tasks
  THEN Reject("updateTask", u, t, 404, "task")
  ELSE IF ~isMember(projectOf(t), u) /\ ~isCreator(projectOf(t), u)
  THEN Reject("updateTask", u, t, 403, "access")
  ELSE /\ tasks' = [tasks EXCEPT
                      ![t] = taskUpdateFields(@,
                               updateFields(body, allowedFields(u, projectOf(t))))]
       /\ IF taskValidators(updateFields(body, allowedFields(u, projectOf(t))))
          THEN Respond("updateTask", u, t, 200, "ok")
          ELSE Respond("updateTask", u, t, errorHandler("ValidationError"),
                       "validation")
       /\ UNCHANGED <<users, notifications, projects, sprints, inflight>>

\* PUT /tasks/:id
updateTask(u, t, body) ==
  LET g == RouteGate(u, FALSE) IN
  IF g # 0 THEN Reject("updateTask", u, t, g, RouteMsg(g))
  ELSE IF t \notin DOMAIN tasks
  THEN Reject("updateTask", u, t, 404, "task")
  ELSE IF ~isMember(projectOf(t), u) /\ ~isCreator(projectOf(t), u)
  THEN Reject("updateTask", u, t, 403, "access")
  ELSE IF ~taskValidators(updateFields(body, allowedFields(u, projectOf(t))))
  THEN Reject("updateTask", u, t, errorHandler("ValidationError"), "validation")
  ELSE /\ tasks' = [tasks EXCEPT
                      ![t] = taskUpdateFields(@,
                               updateFields(body, allowedFields(u, projectOf(t))))]
       /\ Respond("updateTask", u, t, 200, "ok")
       /\ UNCHANGED <<users, notifications, projects, sprints, inflight>>

\* PATCH /tasks/:id/status, up to the assignments to the loaded document:
\* a path is marked modified when its new value differs from the loaded one
updateTaskStatus(u, t, body) ==
  LET g == RouteGate(u, FALSE) IN
  IF g # 0 THEN Reject("updateTaskStatus", u, t, g, RouteMsg(g))
  ELSE IF t \notin DOMAIN tasks
  THEN Reject("updateTaskStatus", u, t, 404, "task")
  ELSE /\ inflight' = Append(inflight,
                        [op |-> "updateTaskStatus", by |-> u, id |-> t,
                         arg |-> [status |-> body.status,
                                  position |-> get(body, "position", 0),
                                  setStatus |-> body.status # tasks[t].status,
                                  setPosition |-> has(body, "position")
                                                  /\ body.position # tasks[t].position]])
       /\ UNCHANGED <<users, notifications, projects, tasks, sprints, last>>

\* task.save(): the modified paths are written
updateTaskStatusSave(i) ==
  /\ i \in DOMAIN inflight
  /\ inflight[i].op = "updateTaskStatus"
  /\ LET r == inflight[i] IN
       /\ tasks' = [tasks EXCEPT
                      ![r.id].status = IF r.arg.setStatus THEN r.arg.status ELSE @,
                      ![r.id].position = IF r.arg.setPosition THEN r.arg.position ELSE @]
       /\ Respond("updateTaskStatus", r.by, r.id, 200, "ok")
  /\ inflight' = RemoveAt(inflight, i)
  /\ UNCHANGED <<users, notifications, projects, sprints>>

\* DELETE /tasks/:id
deleteTask(u, t) ==
  LET g == RouteGate(u, TRUE) IN
  IF g # 0 THEN Reject("deleteTask", u, t, g, RouteMsg(g))
  ELSE IF t \notin DOMAIN tasks
  THEN Reject("deleteTask", u, t, 404, "task")
  ELSE /\ tasks' = [tasks EXCEPT ![t].isActive = FALSE]
       /\ Respond("deleteTask", u, t, 200, "ok")
       /\ UNCHANGED <<users, notifications, projects, sprints, inflight>>

\* addComment that puts the new comment in front of the earlier ones
addCommentInFront(u, t, text) ==
  LET g == RouteGate(u, FALSE) IN
  IF g # 0 THEN Reject("addComment", u, t, g, RouteMsg(g))
  ELSE IF t \notin DOMAIN tasks
  THEN Reject("addComment", u, t, 404, "task")
  ELSE /\ tasks' = [tasks EXCEPT
                      ![t].comments = <<[user |-> u, text |-> text]>> \o @]
       /\ Respond("addComment", u, t, 200, "ok")
       /\ UNCHANGED <<users, notifications, projects, sprints, inflight>>

\* POST /tasks/:id/comments
addComment(u, t, text) ==
  LET g == RouteGate(u, FALSE) IN
  IF g # 0 THEN Reject("addComment", u, t, g, RouteMsg(g))
  ELSE IF t \notin DOMAIN tasks
  THEN Reject("addComment", u, t, 404, "task")
  ELSE /\ tasks' = [tasks EXCEPT
                      ![t].comments = Append(@, [user |-> u, text |-> text])]
       /\ Respond("addComment", u, t, 200, "ok")
       /\ UNCHANGED <<users, notifications, projects, sprints, inflight>>

\* Task.findByIdAndUpdate(update.id, {position, status?}): an id that names
\* no task, or that is no ObjectId, updates nothing
applyUpdate(ts, update) ==
  IF update.id \notin DOMAIN ts THEN ts
  ELSE [ts EXCEPT
          ![update.id].position = update.position,
          ![update.id].status = IF has(update, "status") THEN update.status ELSE @]

RECURSIVE applyUpdates(_, _)
applyUpdates(ts, updates) ==
  IF updates = <<>> THEN ts
  ELSE applyUpdates(applyUpdate(ts, Head(updates)), Tail(updates))

\* the orders in which the store may apply the updates of one request
Orders(updates) ==
  {o \in [DOMAIN updates -> DOMAIN updates] :
     \A i, j \in DOMAIN updates : i # j => o[i] # o[j]}

\* the cast of an id to ObjectId succeeds: the ids of the model are the
\* positive integers, and 0 stands for a string that is no ObjectId
validObjectId(id) == id >= 1

\* the answer of bulkUpdatePositions: Promise.all rejects with the
\* CastError of an item whose id is no ObjectId
bulkAnswer(updates) ==
  IF \A i \in DOMAIN updates : validObjectId(updates[i].id)
  THEN [code |-> 200, msg |-> "ok"]
  ELSE [code |-> errorHandler("CastError"), msg |-> "cast"]

\* bulkUpdatePositions as one transaction: nothing is applied when an item
\* fails
bulkUpdatePositionsAtomic(u, updates) ==
  LET g == RouteGate(u, FALSE) IN
  IF g # 0 THEN Reject("bulkUpdatePositions", u, 0, g, RouteMsg(g))
  ELSE \E o \in Orders(updates) :
         /\ tasks' = IF bulkAnswer(updates).code = 200
                     THEN applyUpdates(tasks, [i \in DOMAIN updates |-> updates[o[i]]])
                     ELSE tasks
         /\ Respond("bulkUpdatePositions", u, 0,
                    bulkAnswer(updates).code, bulkAnswer(updates).msg)
         /\ UNCHANGED <<users, notifications, projects, sprints, inflight>>

\* PATCH /tasks/bulk-update-positions: one update per item, all started
\* before any is awaited, so the items that do not fail are applied
\* whether or not another item fails
bulkUpdatePositions(u, updates) ==
  LET g == RouteGate(u, FALSE) IN
  IF g # 0 THEN Reject("bulkUpdatePositions", u, 0, g, RouteMsg(g))
  ELSE \E o \in Orders(updates) :
         /\ tasks' = applyUpdates(tasks, [i \in DOMAIN updates |-> updates[o[i]]])
         /\ Respond("bulkUpdatePositions", u, 0,
                    bulkAnswer(updates).code, bulkAnswer(updates).msg)
         /\ UNCHANGED <<users, notifications, projects, sprints, inflight>>

----------------------------------------------------------------------------
(* Sprint controller *)

\* the project a sprint is reached through
projectOfSprint(s) == projects[sprints[s].project]

\* GET /sprints/project/:projectId
getSprints(u, p) ==
  LET g == RouteGate(u, FALSE) IN
  IF g # 0 THEN Reject("getSprints", u, p, g, RouteMsg(g))
  ELSE IF p \notin DOMAIN projects
  THEN Reject("getSprints", u, p, 404, "project")
  ELSE IF ~isMember(projects[p], u) /\ ~isCreator(projects[p], u)
  THEN Reject("getSprints", u, p, 403, "access")
  ELSE Reject("getSprints", u, p, 200, "ok")

\* the tasks Task.countDocuments({sprint, isActive: true}) counts
sprintTasks(s) ==
  {t \in DOMAIN tasks : tasks[t].sprint = s /\ tasks[t].isActive}

\* GET /sprints/:id, /sprints/:id/stats and /sprints/:id/tasks: the three
\* handlers make the same checks; the stats handler reports the rate
getSprint(op, u, s) ==
  LET g == RouteGate(u, FALSE) IN
  IF g # 0 THEN Reject(op, u, s, g, RouteMsg(g))
  ELSE IF s \notin DOMAIN sprints
  THEN Reject(op, u, s, 404, "sprint")
  ELSE IF ~isMember(projectOfSprint(s), u) /\ ~isCreator(projectOfSprint(s), u)
  THEN Reject(op, u, s, 403, "access")
  ELSE Report(op, u, s,
              IF op = "getSprintStats"
              THEN completionRate(Cardinality(Done(sprintTasks(s))),
                                  Cardinality(sprintTasks(s)))
              ELSE 0)

\* a validator that accepts an end date equal to the start date
endDateValidatorLoose(value, this) ==
  IF has(this, "startDate") THEN value >= this.startDate ELSE FALSE

\* the validator of endDate: `this` is the document on create and the
\* query, which has no startDate, on findByIdAndUpdate
endDateValidator(value, this) ==
  IF has(this, "startDate") THEN value > this.startDate ELSE FALSE

\* POST /sprints/project/:projectId
createSprint(u, p, body) ==
  LET g == RouteGate(u, TRUE)
      doc == [project   |-> p,
              startDate |-> body.startDate,
              endDate   |-> body.endDate,
              status    |-> "Planning",
              createdBy |-> u,
              isActive  |-> TRUE]
  IN
  IF g # 0 THEN Reject("createSprint", u, p, g, RouteMsg(g))
  ELSE IF p \notin DOMAIN projects
  THEN Reject("createSprint", u, p, 404, "project")
  ELSE IF ~endDateValidator(doc.endDate, doc)
  THEN Reject("createSprint", u, p, errorHandler("ValidationError"), "validation")
  ELSE /\ sprints' = Append(sprints, doc)
       /\ Respond("createSprint", u, p, 201, "ok")
       /\ UNCHANGED <<users, notifications, projects, tasks, inflight>>

\* the fields updateSprint copies from the body
sprintUpdateFields(sprint, body) ==
  [f \in DOMAIN sprint |->
     IF f \in {"startDate", "endDate", "status"} /\ has(body, f)
     THEN body[f] ELSE sprint[f]]

\* PUT /sprints/:id
updateSprint(u, s, body) ==
  LET g == RouteGate(u, TRUE) IN
  IF g # 0 THEN Reject("updateSprint", u, s, g, RouteMsg(g))
  ELSE IF s \notin DOMAIN sprints
  THEN Reject("updateSprint", u, s, 404, "sprint")
  ELSE IF has(body, "endDate") /\ ~endDateValidator(body.endDate, <<>>)
  THEN Reject("updateSprint", u, s, errorHandler("ValidationError"), "validation")
  ELSE /\ sprints' = [sprints EXCEPT ![s] = sprintUpdateFields(@, body)]
       /\ Respond("updateSprint", u, s, 200, "ok")
       /\ UNCHANGED <<users, notifications, projects, tasks, inflight>>

\* DELETE /sprints/:id, up to sprint.save(): detaching the tasks is the
\* continuation deleteSprintCascade
deleteSprint(u, s) ==
  LET g == RouteGate(u, TRUE) IN
  IF g # 0 THEN Reject("deleteSprint", u, s, g, RouteMsg(g))
  ELSE IF s \notin DOMAIN sprints
  THEN Reject("deleteSprint", u, s, 404, "sprint")
  ELSE /\ sprints' = [sprints EXCEPT ![s].isActive = FALSE]
       /\ inflight' = Append(inflight,
                        [op |-> "deleteSprint", by |-> u, id |-> s, arg |-> 0])
       /\ UNCHANGED <<users, notifications, projects, tasks, last>>

\* the cascade without its filter: every task loses its sprint
deleteSprintCascadeAll(i) ==
  /\ i \in DOMAIN inflight
  /\ inflight[i].op = "deleteSprint"
  /\ LET r == inflight[i] IN
       /\ tasks' = [t \in DOMAIN tasks |-> [tasks[t] EXCEPT !.sprint = Null]]
       /\ Respond("deleteSprint", r.by, r.id, 200, "ok")
  /\ inflight' = RemoveAt(inflight, i)
  /\ UNCHANGED <<users, notifications, projects, sprints>>

\* Task.updateMany({sprint}, {$unset: {sprint: 1}}) and the answer
deleteSprintCascade(i) ==
  /\ i \in DOMAIN inflight
  /\ inflight[i].op = "deleteSprint"
  /\ LET r == inflight[i] IN
       /\ tasks' = [t \in DOMAIN tasks |->
                      IF tasks[t].sprint = r.id
                      THEN [tasks[t] EXCEPT !.sprint = Null]
                      ELSE tasks[t]]
       /\ Respond("deleteSprint", r.by, r.id, 200, "ok")
  /\ inflight' = RemoveAt(inflight, i)
  /\ UNCHANGED <<users, notifications, projects, sprints>>

\* deleteSprint when sprint.save() is rejected by the database
deleteSprintSaveFails(u, s) ==
  /\ RouteGate(u, TRUE) = 0
  /\ s \in DOMAIN sprints
  /\ last' = Thrown("deleteSprint", u, s, "MongoError")
  /\ UNCHANGED <<users, notifications, projects, tasks, sprints, inflight>>

\* the continuation when Task.updateMany is rejected by the database: the
\* sprint stays inactive, the tasks keep their reference to it
deleteSprintCascadeFails(i) ==
  /\ i \in DOMAIN inflight
  /\ inflight[i].op = "deleteSprint"
  /\ last' = Thrown("deleteSprint", inflight[i].by, inflight[i].id, "MongoError")
  /\ inflight' = RemoveAt(inflight, i)
  /\ UNCHANGED <<users, notifications, projects, tasks, sprints>>

----------------------------------------------------------------------------
(* Notification controller *)

\* the notifications are kept by id: deleteOne removes the document, and a
\* new document gets an id that names no stored one
NotificationIds == 1..MaxNotifications

\* Notification.findOne({_id}): the lookup without the recipient
findAny(u, n) == n \in DOMAIN notifications

\* Notification.findOne({_id, user}): the document exists
findOwn(u, n) == n \in DOMAIN notifications /\ notifications[n].user = u

\* createNotification(userId, message): the helper the server calls
createNotification(userId, message) ==
  /\ \E n \in NotificationIds \ DOMAIN notifications :
       notifications' =
         [i \in DOMAIN notifications \cup {n} |->
            IF i = n
            THEN [user |-> userId, message |-> message, type |-> "info",
                  read |-> FALSE]
            ELSE notifications[i]]
  /\ UNCHANGED <<users, projects, tasks, sprints, inflight, last>>

\* GET /notifications
getNotifications(u) ==
  LET g == RouteGate(u, FALSE) IN
  IF g # 0 THEN Reject("getNotifications", u, 0, g, RouteMsg(g))
  ELSE Reject("getNotifications", u, 0, 200, "ok")

\* PUT /notifications/:id/read
markAsRead(u, n) ==
  LET g == RouteGate(u, FALSE) IN
  IF g # 0 THEN Reject("markAsRead", u, n, g, RouteMsg(g))
  ELSE IF ~findOwn(u, n)
  THEN Reject("markAsRead", u, n, 404, "notification")
  ELSE /\ notifications' = [notifications EXCEPT ![n].read = TRUE]
       /\ Respond("markAsRead", u, n, 200, "ok")
       /\ UNCHANGED <<users, projects, tasks, sprints, inflight>>

\* PUT /notifications/read-all
markAllAsRead(u) ==
  LET g == RouteGate(u, FALSE) IN
  IF g # 0 THEN Reject("markAllAsRead", u, 0, g, RouteMsg(g))
  ELSE /\ notifications' =
            [n \in DOMAIN notifications |->
               IF notifications[n].user = u /\ ~notifications[n].read
               THEN [notifications[n] EXCEPT !.read = TRUE]
               ELSE notifications[n]]
       /\ Respond("markAllAsRead", u, 0, 200, "ok")
       /\ UNCHANGED <<users, projects, tasks, sprints, inflight>>

\* DELETE /notifications/:id
deleteNotification(u, n) ==
  LET g == RouteGate(u, FALSE) IN
  IF g # 0 THEN Reject("deleteNotification", u, n, g, RouteMsg(g))
  ELSE IF ~findOwn(u, n)
  THEN Reject("deleteNotification", u, n, 404, "notification")
  ELSE /\ notifications' = [i \in DOMAIN notifications \ {n} |-> notifications[i]]
       /\ Respond("deleteNotification", u, n, 200, "ok")
       /\ UNCHANGED <<users, projects, tasks, sprints, inflight>>

----------------------------------------------------------------------------
(* Auth controller *)

\* the password each user registered with; no modelled route changes it
credentials == [u \in Users |-> IF u = "u1" THEN "pw1"
                                ELSE IF u = "u2" THEN "pw2" ELSE "pw3"]

\* User.findOne({email}): a user is found by the address that is theirs,
\* written here as the user's key
findByEmail(email) == IF email \in DOMAIN users THEN email ELSE NullUser

\* POST /auth/login: the answer names the user the token is signed for in
\* `about`, and carries a token only when its message is "token"
login(body) ==
  IF get(body, "email", "") = "" \/ get(body, "password", "") = ""
  THEN RejectAbout("login", NullUser, 0, "-", 400, "missing")
  ELSE LET user == findByEmail(body.email) IN
    IF user = NullUser
    THEN RejectAbout("login", NullUser, 0, "-", 401, "credentials")
    ELSE IF ~users[user].isActive
    THEN RejectAbout("login", NullUser, 0, user, 401, "deactivated")
    ELSE IF body.password # credentials[user]
    THEN RejectAbout("login", NullUser, 0, user, 401, "credentials")
    ELSE RejectAbout("login", NullUser, 0, user, 200, "token")

\* an administrator deactivates user u: the only change a user record sees
deactivate(u) ==
  /\ u \in DOMAIN users
  /\ users[u].isActive
  /\ users' = [users EXCEPT ![u].isActive = FALSE]
  /\ UNCHANGED <<notifications, projects, tasks, sprints, inflight, last>>

----------------------------------------------------------------------------
(* Analytics controller *)

\* the active projects the principal created or is a member of
userProjects(u) ==
  {p \in DOMAIN projects :
     projects[p].isActive /\ (isCreator(projects[p], u) \/ isMember(projects[p], u))}

\* the tasks Task.countDocuments({project: {$in: projectIds}, isActive: true})
\* counts
dashboardTasks(u) ==
  {t \in DOMAIN tasks : tasks[t].project \in userProjects(u) /\ tasks[t].isActive}

\* the tasks Task.countDocuments({assignedTo: userId, isActive: true}) counts
myTasks(u) ==
  {t \in DOMAIN tasks : tasks[t].assignedTo = u /\ tasks[t].isActive}

\* the date of the request: the due date of PlainTask has passed
Now == 2

\* the $group of an aggregate over the tasks T by field f
groupBy(T, f) ==
  {[id |-> v, count |-> Cardinality({t \in T : tasks[t][f] = v})] :
     v \in {tasks[t][f] : t \in T}}

\* the data of the dashboard answer.  Every stored task was created within
\* the last seven days.
dashboard(u) ==
  [totalProjects    |-> Cardinality(userProjects(u)),
   totalTasks       |-> Cardinality(dashboardTasks(u)),
   completedTasks   |-> Cardinality(Done(dashboardTasks(u))),
   myTasks          |-> Cardinality(myTasks(u)),
   myCompletedTasks |-> Cardinality(Done(myTasks(u))),
   delayedTasks     |-> Cardinality({t \in dashboardTasks(u) :
                                       tasks[t].status # "Done"
                                       /\ tasks[t].dueDate < Now}),
   activeSprints    |-> Cardinality({x \in DOMAIN sprints :
                                       /\ sprints[x].project \in userProjects(u)
                                       /\ sprints[x].status = "Active"
                                       /\ sprints[x].isActive}),
   recentTasks      |-> Cardinality(dashboardTasks(u)),
   completionRate   |-> completionRate(Cardinality(Done(dashboardTasks(u))),
                                       Cardinality(dashboardTasks(u))),
   myCompletionRate |-> completionRate(Cardinality(Done(myTasks(u))),
                                       Cardinality(myTasks(u))),
   tasksByStatus    |-> groupBy(dashboardTasks(u), "status"),
   tasksByPriority  |-> groupBy(dashboardTasks(u), "priority")]

\* GET /analytics/dashboard
getDashboardAnalytics(u) ==
  LET g == RouteGate(u, FALSE) IN
  IF g # 0 THEN Reject("getDashboardAnalytics", u, 0, g, RouteMsg(g))
  ELSE /\ last' = [op |-> "getDashboardAnalytics", by |-> u, id |-> 0,
                   about |-> "-", code |-> 200, msg |-> "ok",
                   data |-> dashboard(u).completionRate,
                   overview |-> dashboard(u)]
       /\ UNCHANGED <<users, notifications, projects, tasks, sprints, inflight>>

----------------------------------------------------------------------------
(* The stores at start, and the end of a request *)

InitUsers ==
  [u \in Users |-> [role |-> IF u = "u2" THEN TM ELSE PM, isActive |-> TRUE]]

NoResponse ==
  [op |-> "none", by |-> "none", id |-> 0, about |-> "-", code |-> 0, msg |-> "none",
   data |-> 0, overview |-> NoOverview]

Init ==
  /\ users = InitUsers
  /\ notifications = <<>>
  /\ projects = <<>>
  /\ tasks = <<>>
  /\ sprints = <<>>
  /\ inflight = <<>>
  /\ last = NoResponse

\* the response has been sent: the next request or continuation runs
endRequest ==
  /\ last # NoResponse
  /\ last' = NoResponse
  /\ UNCHANGED <<users, notifications, projects, tasks, sprints, inflight>>

Idle == last = NoResponse

\* no request is suspended
Quiet == inflight = <<>>

\* the bound on the requests in flight
Room == Len(inflight') <= MaxInflight

\* a task body and a sprint body with the required fields
PlainTask == [title |-> "task0", description |-> "d0", dueDate |-> 1]

PlainSprint == [startDate |-> 1, endDate |-> 2]

\* the id the requests name: it names no document until one is stored
Ids == {1}

----------------------------------------------------------------------------
(* SpecMembers: the membership of one project, under every interleaving   *)
(* of the requests of the project router                                   *)

\* members arrays of createProject requests
MemberInputs ==
  {<<>>,
   <<[user |-> "u2"]>>,
   <<[user |-> "u1", role |-> TM], [user |-> "u3", role |-> PM]>>,
   <<[user |-> "u2", role |-> PM], [user |-> "u2"]>>}

AddMemberBodies ==
  {[userId |-> "u1"], [userId |-> "u2"], [userId |-> "u2", role |-> PM],
   [userId |-> "u3"], [userId |-> "u3", role |-> PM]}

ProjectBodies == {[status |-> "Active"], [name |-> "n1"]}

\* the ids the requests name: the project, and an id that names none
MemberProjectIds == {1, 2}

MembersRoom(p) ==
  p \in DOMAIN projects =>
    Len(projects[p].members) + Len(inflight) < MaxMembers

NextMembers ==
  \/ endRequest
  \/ Idle /\ \E u \in Users, p \in MemberProjectIds : getProject(u, p)
  \/ Idle /\ \E u \in Users, ms \in MemberInputs :
       /\ projects = <<>>
       /\ Len(ms) < MaxMembers
       /\ createProject(u, withMembers(ms))
  \/ Idle /\ \E u \in Users, p \in MemberProjectIds, b \in ProjectBodies :
       updateProject(u, p, b)
  \/ Idle /\ \E u \in Users, p \in MemberProjectIds : deleteProject(u, p) /\ Room
  \/ Idle /\ \E i \in 1..MaxInflight : deleteProjectCascade(i)
  \/ Idle /\ \E u \in Users, p \in MemberProjectIds, b \in AddMemberBodies :
       MembersRoom(p) /\ addMember(u, p, b) /\ Room
  \/ Idle /\ \E i \in 1..MaxInflight : addMemberSave(i)
  \/ Idle /\ \E u \in Users, p \in MemberProjectIds, t \in Users : removeMember(u, p, t)

SpecMembers == Init /\ [][NextMembers]_vars

----------------------------------------------------------------------------
(* SpecCascade: the soft deletes of projects and sprints and their         *)
(* cascades, over two projects, two sprints and their tasks, each request  *)
(* running to its answer before the next one starts                        *)

\* the members array of the createProject requests: a Team Member and a
\* Project Manager, both with the Project Manager project-role
ManagerInputs == {<<[user |-> "u2", role |-> PM], [user |-> "u3", role |-> PM]>>}

\* the user who creates the tasks and the sprints
Author == "u1"

\* task bodies: the title tells which sprint the body names
SprintTaskBodies ==
  {[title |-> "task0", description |-> "d0", dueDate |-> 1],
   [title |-> "task1", description |-> "d0", dueDate |-> 1, sprint |-> 1],
   [title |-> "task2", description |-> "d0", dueDate |-> 1, sprint |-> 2]}

\* the ids the requests name: two projects, and two sprints
CascadeIds == {1, 2}

NextCascade ==
  \/ endRequest
  \/ Idle /\ Quiet /\ \E u \in {"u1", "u3"}, ms \in ManagerInputs :
       Len(projects) + 1 \in CascadeIds /\ createProject(u, withMembers(ms))
  \/ Idle /\ Quiet /\ \E p \in CascadeIds, b \in SprintTaskBodies :
       Len(tasks) < MaxTasks /\ createTask(Author, p, b)
  \/ Idle /\ \E i \in DOMAIN inflight : createTaskSave(i)
  \/ Idle /\ Quiet /\ \E p \in CascadeIds :
       Len(sprints) + 1 \in CascadeIds /\ createSprint(Author, p, PlainSprint)
  \/ Idle /\ Quiet /\ \E u \in Users, p \in CascadeIds : deleteProject(u, p)
  \/ Idle /\ \E i \in DOMAIN inflight : deleteProjectCascade(i)
  \/ Idle /\ Quiet /\ \E u \in Users, s \in CascadeIds : deleteSprint(u, s)
  \/ Idle /\ \E i \in DOMAIN inflight : deleteSprintCascade(i)

SpecCascade == Init /\ [][NextCascade]_vars

----------------------------------------------------------------------------
(* SpecFailure: the soft deletes of one project and one sprint when a      *)
(* write may be rejected by the database                                   *)

NextFailure ==
  \/ endRequest
  \/ Idle /\ Quiet /\ projects = <<>> /\ createProject(Author, withMembers(<<>>))
  \/ Idle /\ Quiet /\ \E b \in SprintTaskBodies :
       Len(tasks) < MaxTasks /\ createTask(Author, 1, b)
  \/ Idle /\ \E i \in DOMAIN inflight : createTaskSave(i)
  \/ Idle /\ Quiet /\ sprints = <<>> /\ createSprint(Author, 1, PlainSprint)
  \/ Idle /\ Quiet /\ \E u \in Users, p \in Ids : deleteProject(u, p)
  \/ Idle /\ Quiet /\ \E u \in Users, p \in Ids : deleteProjectSaveFails(u, p)
  \/ Idle /\ \E i \in DOMAIN inflight : deleteProjectCascade(i)
  \/ Idle /\ \E i \in DOMAIN inflight : deleteProjectCascadeFails(i)
  \/ Idle /\ Quiet /\ \E u \in Users, s \in Ids : deleteSprint(u, s)
  \/ Idle /\ Quiet /\ \E u \in Users, s \in Ids : deleteSprintSaveFails(u, s)
  \/ Idle /\ \E i \in DOMAIN inflight : deleteSprintCascade(i)
  \/ Idle /\ \E i \in DOMAIN inflight : deleteSprintCascadeFails(i)

SpecFailure == Init /\ [][NextFailure]_vars

----------------------------------------------------------------------------
(* SpecCreate: createProject with the bodies a client may send             *)

CreateBodies ==
  {[name |-> "n0"],
   [name |-> "n1", status |-> "Active"],
   [name |-> "n0", members |-> <<>>],
   [name |-> "n0", members |-> <<[user |-> "u1", role |-> TM],
                                 [user |-> "u3", role |-> PM]>>],
   [name |-> "n0", members |-> <<[user |-> "u2"], [user |-> "u1"],
                                 [user |-> "u3", role |-> PM]>>],
   [name |-> "n1", status |-> "Active",
    members |-> <<[user |-> "u3"], [user |-> "u2", role |-> PM]>>]}

NextCreate ==
  \/ endRequest
  \/ Idle /\ \E u \in Users, b \in CreateBodies :
       Len(projects) + 1 \in CascadeIds /\ createProject(u, b)
  \/ Idle /\ \E u \in Users, p \in CascadeIds : getProject(u, p)

SpecCreate == Init /\ [][NextCreate]_vars

----------------------------------------------------------------------------
(* SpecPositions: tasks created one after another in two projects, with    *)
(* status and position updates and soft deletes in between                 *)

StatusBodies ==
  {[status |-> "Done"],
   [status |-> "In Progress", position |-> 5],
   [status |-> "To Do", position |-> 0]}

\* updates arrays: two tasks; a task and an id that is no ObjectId; an id
\* that names no task and a task
BulkBodies ==
  {<<[id |-> 1, position |-> 3], [id |-> 2, position |-> 3, status |-> "Review"]>>,
   <<[id |-> 2, position |-> 20], [id |-> 0, position |-> 9]>>,
   <<[id |-> 9, position |-> 9], [id |-> 1, position |-> 4, status |-> "Done"]>>}

NextPositions ==
  \/ endRequest
  \/ Idle /\ Quiet /\ Len(projects) + 1 \in CascadeIds
          /\ createProject(Author, withMembers(<<>>))
  \/ Idle /\ Quiet /\ \E p \in CascadeIds :
       Len(tasks) < MaxTasks /\ createTask(Author, p, PlainTask)
  \/ Idle /\ \E i \in DOMAIN inflight : createTaskSave(i)
  \/ Idle /\ Quiet /\ \E t \in 1..MaxTasks, b \in StatusBodies :
       updateTaskStatus(Author, t, b)
  \/ Idle /\ \E i \in DOMAIN inflight : updateTaskStatusSave(i)
  \/ Idle /\ Quiet /\ \E b \in BulkBodies : bulkUpdatePositions(Author, b)
  \/ Idle /\ Quiet /\ \E t \in 1..MaxTasks : deleteTask(Author, t)

SpecPositions == Init /\ [][NextPositions]_vars

----------------------------------------------------------------------------
(* SpecRace: requests that set the status and the position of the same     *)
(* task, under every interleaving of their reads and their writes          *)

RaceBodies ==
  {[status |-> "Done", position |-> 3],
   [status |-> "To Do", position |-> 5]}

RaceBulkBodies ==
  {<<[id |-> 1, position |-> 7, status |-> "Review"]>>}

NextRace ==
  \/ endRequest
  \/ Idle /\ Quiet /\ projects = <<>> /\ createProject(Author, withMembers(<<>>))
  \/ Idle /\ Quiet /\ Len(tasks) < MaxTasks /\ createTask(Author, 1, PlainTask)
  \/ Idle /\ \E i \in DOMAIN inflight : createTaskSave(i)
  \/ Idle /\ \E u \in Users, t \in 1..MaxTasks, b \in RaceBodies :
       updateTaskStatus(u, t, b) /\ Room
  \/ Idle /\ \E i \in DOMAIN inflight : updateTaskStatusSave(i)
  \/ Idle /\ \E u \in Users, b \in RaceBulkBodies : bulkUpdatePositions(u, b)

SpecRace == Init /\ [][NextRace]_vars

----------------------------------------------------------------------------
(* SpecNotifications: the notification router, with notifications created  *)
(* for every user                                                          *)

NextNotifications ==
  \/ endRequest
  \/ Idle /\ \E u \in Users : createNotification(u, "m0")
  \/ Idle /\ \E u \in Users : getNotifications(u)
  \/ Idle /\ \E u \in Users, n \in NotificationIds : markAsRead(u, n)
  \/ Idle /\ \E u \in Users : markAllAsRead(u)
  \/ Idle /\ \E u \in Users, n \in NotificationIds : deleteNotification(u, n)

SpecNotifications == Init /\ [][NextNotifications]_vars

----------------------------------------------------------------------------
(* SpecSprints: the sprints of one project, created and edited with every  *)
(* pair of dates                                                           *)

\* the dates the requests name, as days
Dates == {1, 2, 3}

SprintBodies == [startDate : Dates, endDate : Dates]

SprintUpdateBodies ==
  [startDate : Dates] \cup [endDate : Dates] \cup [status : {"Active"}]
    \cup {[startDate |-> 1, endDate |-> 3]}

NextSprints ==
  \/ endRequest
  \/ Idle /\ projects = <<>> /\ createProject(Author, withMembers(<<>>))
  \/ Idle /\ \E u \in Users, p \in Ids, b \in SprintBodies :
       Len(sprints) + 1 \in CascadeIds /\ createSprint(u, p, b)
  \/ Idle /\ \E u \in Users, s \in CascadeIds, b \in SprintUpdateBodies :
       updateSprint(u, s, b)
  \/ Idle /\ \E u \in Users, s \in CascadeIds : getSprint("getSprint", u, s)

SpecSprints == Init /\ [][NextSprints]_vars

----------------------------------------------------------------------------
(* SpecRate: the three statistics routes over one project and one sprint  *)
(* that hold `total` tasks, `completed` of them Done                       *)

\* the stored tasks: the first `completed` of `total` are Done
RateTasks(total, completed) ==
  [i \in 1..total |->
     [newTask(Author, 1, [title |-> "task0", description |-> "d0",
                          dueDate |-> 1, sprint |-> 1], i - 1)
        EXCEPT !.status = IF i <= completed THEN "Done" ELSE "To Do"]]

InitRate ==
  /\ users = InitUsers
  /\ notifications = <<>>
  /\ projects = <<[createdBy |-> Author,
                   members   |-> projectMembers(Author, <<>>),
                   name      |-> "n0",
                   status    |-> "Planning",
                   isActive  |-> TRUE]>>
  /\ sprints = <<[project   |-> 1,
                  startDate |-> 1,
                  endDate   |-> 2,
                  status    |-> "Planning",
                  createdBy |-> Author,
                  isActive  |-> TRUE]>>
  /\ \E total \in 0..MaxTotal, completed \in 0..MaxTotal :
       completed <= total /\ tasks = RateTasks(total, completed)
  /\ inflight = <<>>
  /\ last = NoResponse

NextRate ==
  \/ endRequest
  \/ Idle /\ \E u \in Users : getProjectStats(u, 1)
  \/ Idle /\ \E u \in Users : getSprint("getSprintStats", u, 1)
  \/ Idle /\ \E u \in Users : getDashboardAnalytics(u)

SpecRate == InitRate /\ [][NextRate]_vars

----------------------------------------------------------------------------
(* SpecTaskEdit: updateTask on one task, by the creator of the project, by *)
(* a member with either project-role and by a user who is not a member     *)

\* members arrays that leave u2 out, or give u2 either project-role
OneMemberInputs == {<<>>, <<[user |-> "u2"]>>, <<[user |-> "u2", role |-> PM]>>}

\* the bodies of the updateTask requests
EditBodies ==
  {[status |-> "Done", title |-> "x"],
   [actualHours |-> 3],
   [title |-> "other", priority |-> "Urgent"],
   [title |-> "next", description |-> "d1", status |-> "Review", priority |-> "High",
    assignedTo |-> "u2", dueDate |-> 2, sprint |-> 1, estimatedHours |-> 5,
    actualHours |-> 4],
   [status |-> "In Progress", estimatedHours |-> 2],
   [status |-> "Closed", actualHours |-> 3]}

NextTaskEdit ==
  \/ endRequest
  \/ Idle /\ Quiet /\ \E ms \in OneMemberInputs :
       projects = <<>> /\ createProject(Author, withMembers(ms))
  \/ Idle /\ Quiet /\ \E p \in Ids : tasks = <<>> /\ createTask(Author, p, PlainTask)
  \/ Idle /\ \E i \in DOMAIN inflight : createTaskSave(i)
  \/ Idle /\ Quiet /\ \E u \in Users, t \in Ids : getTask(u, t)
  \/ Idle /\ Quiet /\ \E u \in Users, t \in Ids, b \in EditBodies : updateTask(u, t, b)

SpecTaskEdit == Init /\ [][NextTaskEdit]_vars

----------------------------------------------------------------------------
(* SpecComments: the comments of one task under every route that writes    *)
(* the task                                                                *)

Texts == {"c0", "c1"}

\* the body of an updateTask request that names every field
FullEdit ==
  [title |-> "next", description |-> "d1", status |-> "Review", priority |-> "High",
   assignedTo |-> "u2", dueDate |-> 2, sprint |-> 1, estimatedHours |-> 5,
   actualHours |-> 4]

NextComments ==
  \/ endRequest
  \/ Idle /\ Quiet /\ projects = <<>> /\ createProject(Author, withMembers(<<>>))
  \/ Idle /\ Quiet /\ tasks = <<>> /\ createTask(Author, 1, PlainTask)
  \/ Idle /\ \E i \in DOMAIN inflight : createTaskSave(i)
  \/ Idle /\ Quiet /\ sprints = <<>> /\ createSprint(Author, 1, PlainSprint)
  \/ Idle /\ Quiet /\ \E u \in Users, t \in Ids, text \in Texts :
       /\ t \in DOMAIN tasks => Len(tasks[t].comments) < MaxComments
       /\ addComment(u, t, text)
  \/ Idle /\ Quiet /\ \E t \in Ids : updateTask(Author, t, FullEdit)
  \/ Idle /\ Quiet /\ \E t \in Ids :
       updateTaskStatus(Author, t, [status |-> "In Progress", position |-> 3])
  \/ Idle /\ \E i \in DOMAIN inflight : updateTaskStatusSave(i)
  \/ Idle /\ Quiet /\
       bulkUpdatePositions(Author, <<[id |-> 1, position |-> 5, status |-> "Done"]>>)
  \/ Idle /\ Quiet /\ \E t \in Ids : deleteTask(Author, t)
  \/ Idle /\ Quiet /\ \E p \in Ids : deleteProject(Author, p)
  \/ Idle /\ \E i \in DOMAIN inflight : deleteProjectCascade(i)
  \/ Idle /\ Quiet /\ \E x \in Ids : deleteSprint(Author, x)
  \/ Idle /\ \E i \in DOMAIN inflight : deleteSprintCascade(i)

SpecComments == Init /\ [][NextComments]_vars

----------------------------------------------------------------------------
(* SpecDashboard: the dashboard of each user, over one project whose tasks *)
(* are assigned to members and to others                                   *)

AssignBodies ==
  {[title |-> "task0", description |-> "d0", dueDate |-> 1],
   [title |-> "task0", description |-> "d0", dueDate |-> 1, assignedTo |-> "u2"],
   [title |-> "task0", description |-> "d0", dueDate |-> 3, assignedTo |-> "u3",
    status |-> "Done"]}

NextDashboard ==
  \/ endRequest
  \/ Idle /\ Quiet /\ \E ms \in OneMemberInputs :
       projects = <<>> /\ createProject(Author, withMembers(ms))
  \/ Idle /\ Quiet /\ \E b \in AssignBodies :
       Len(tasks) < MaxTasks /\ createTask(Author, 1, b)
  \/ Idle /\ \E i \in DOMAIN inflight : createTaskSave(i)
  \/ Idle /\ Quiet /\ sprints = <<>> /\ createSprint(Author, 1, PlainSprint)
  \/ Idle /\ Quiet /\ \E x \in Ids : updateSprint(Author, x, [status |-> "Active"])
  \/ Idle /\ Quiet /\ \E p \in Ids : removeMember(Author, p, "u2")
  \/ Idle /\ Quiet /\ \E u \in Users : getDashboardAnalytics(u)

SpecDashboard == Init /\ [][NextDashboard]_vars

----------------------------------------------------------------------------
(* SpecCreateTask: createTask requests of three users on two projects,    *)
(* under every interleaving of their reads and their writes; no request    *)
(* moves a task                                                            *)

NextCreateTask ==
  \/ endRequest
  \/ Idle /\ Quiet /\ Len(projects) + 1 \in CascadeIds
          /\ createProject(Author, withMembers(<<>>))
  \/ Idle /\ \E u \in Users, p \in CascadeIds, b \in AssignBodies :
       /\ Len(tasks) + Len(inflight) < MaxTasks
       /\ createTask(u, p, b)
       /\ Room
  \/ Idle /\ \E i \in DOMAIN inflight : createTaskSave(i)
  \/ Idle /\ Quiet /\ \E t \in 1..MaxTasks : deleteTask(Author, t)

SpecCreateTask == Init /\ [][NextCreateTask]_vars

----------------------------------------------------------------------------
(* SpecAuth: users are deactivated while they send login requests and     *)
(* requests to protected routes with the tokens they hold                  *)

LoginBodies ==
  {[email |-> "u1", password |-> "pw1"],
   [email |-> "u1", password |-> "pw2"],
   [email |-> "u3", password |-> "pw3"],
   [email |-> "u3"],
   [email |-> "u4", password |-> "pw1"]}

NextAuth ==
  \/ endRequest
  \/ Idle /\ \E u \in Users : deactivate(u)
  \/ Idle /\ \E b \in LoginBodies : login(b)
  \/ Idle /\ \E u \in Users : projects = <<>> /\ createProject(u, withMembers(<<>>))
  \/ Idle /\ \E u \in Users, p \in Ids : getProject(u, p)
  \/ Idle /\ \E u \in Users, p \in Ids, b \in ProjectBodies : updateProject(u, p, b)
  \/ Idle /\ \E u \in Users, p \in Ids :
       /\ Len(tasks) + Len(inflight) < MaxTasks
       /\ createTask(u, p, PlainTask)
       /\ Room
  \/ Idle /\ \E i \in DOMAIN inflight : createTaskSave(i)
  \/ Idle /\ \E u \in Users, t \in Ids : updateTask(u, t, [status |-> "Done"])
  \/ Idle /\ \E u \in Users, t \in Ids : deleteTask(u, t)
  \/ Idle /\ \E u \in Users : getDashboardAnalytics(u)
  \/ Idle /\ \E u \in Users : markAllAsRead(u)

SpecAuth == Init /\ [][NextAuth]_vars

----------------------------------------------------------------------------
(* Spec: every route, on one project, one task and one sprint, each        *)
(* request running to its answer before the next one starts                *)

OneAddMemberBodies == {[userId |-> "u2", role |-> PM], [userId |-> "u3"]}

NoComment(t) == t \in DOMAIN tasks => tasks[t].comments = <<>>

Next ==
  \/ endRequest
  \/ Idle /\ Quiet /\ \E u \in Users, p \in Ids : getProject(u, p)
  \/ Idle /\ Quiet /\ \E u \in Users, p \in Ids : getProjectStats(u, p)
  \/ Idle /\ Quiet /\ \E u \in Users, ms \in OneMemberInputs :
       projects = <<>> /\ createProject(u, withMembers(ms))
  \/ Idle /\ Quiet /\ \E u \in Users, p \in Ids : updateProject(u, p, [status |-> "Active"])
  \/ Idle /\ Quiet /\ \E u \in Users, p \in Ids : deleteProject(u, p)
  \/ Idle /\ \E i \in DOMAIN inflight : deleteProjectCascade(i)
  \/ Idle /\ Quiet /\ \E u \in Users, p \in Ids, b \in OneAddMemberBodies :
       MembersRoom(p) /\ addMember(u, p, b)
  \/ Idle /\ \E i \in DOMAIN inflight : addMemberSave(i)
  \/ Idle /\ Quiet /\ \E u \in Users, p \in Ids, t \in Users : removeMember(u, p, t)
  \/ Idle /\ Quiet /\ \E u \in Users, p \in Ids : getTasks(u, p)
  \/ Idle /\ Quiet /\ \E u \in Users, t \in Ids : getTask(u, t)
  \/ Idle /\ Quiet /\ \E u \in Users, p \in Ids :
       tasks = <<>> /\ createTask(u, p, PlainTask)
  \/ Idle /\ \E i \in DOMAIN inflight : createTaskSave(i)
  \/ Idle /\ Quiet /\ \E u \in Users, t \in Ids :
       updateTask(u, t, [status |-> "Done", title |-> "next"])
  \/ Idle /\ Quiet /\ \E u \in Users, t \in Ids :
       updateTaskStatus(u, t, [status |-> "In Progress"])
  \/ Idle /\ \E i \in DOMAIN inflight : updateTaskStatusSave(i)
  \/ Idle /\ Quiet /\ \E u \in Users, t \in Ids : deleteTask(u, t)
  \/ Idle /\ Quiet /\ \E u \in Users, t \in Ids : NoComment(t) /\ addComment(u, t, "c")
  \/ Idle /\ Quiet /\ \E u \in Users : bulkUpdatePositions(u, <<[id |-> 1, position |-> 3]>>)
  \/ Idle /\ Quiet /\ \E u \in Users, p \in Ids : getSprints(u, p)
  \/ Idle /\ Quiet /\ \E u \in Users, s \in Ids,
               op \in {"getSprint", "getSprintStats", "getSprintTasks"} :
       getSprint(op, u, s)
  \/ Idle /\ Quiet /\ \E u \in Users, p \in Ids :
       sprints = <<>> /\ createSprint(u, p, PlainSprint)
  \/ Idle /\ Quiet /\ \E u \in Users, s \in Ids : updateSprint(u, s, [status |-> "Active"])
  \/ Idle /\ Quiet /\ \E u \in Users, s \in Ids : deleteSprint(u, s)
  \/ Idle /\ \E i \in DOMAIN inflight : deleteSprintCascade(i)

Spec == Init /\ [][Next]_vars

----------------------------------------------------------------------------
(* SpecFrame: the routes that write a project, a task or a sprint, with    *)
(* bodies that also name another owning project and another creator and    *)
(* ask for isActive: true                                                  *)

FrameTaskBodies ==
  {[title |-> "next", project |-> 2, createdBy |-> "u3", isActive |-> TRUE],
   [status |-> "Done", project |-> 2, isActive |-> TRUE],
   [sprint |-> 1, createdBy |-> "u3"]}

NextFrame ==
  \/ endRequest
  \/ Idle /\ Quiet /\ \E u \in {Author, "u3"} :
       /\ Len(projects) + 1 \in CascadeIds
       /\ createProject(u, [name |-> "n0", createdBy |-> "u2"])
  \/ Idle /\ Quiet /\ \E u \in Users, p \in CascadeIds :
       updateProject(u, p, [status |-> "Active", createdBy |-> "u2",
                           isActive |-> TRUE])
  \/ Idle /\ Quiet /\ \E p \in CascadeIds : addMember(Author, p, [userId |-> "u2"])
  \/ Idle /\ \E i \in DOMAIN inflight : addMemberSave(i)
  \/ Idle /\ Quiet /\ \E p \in CascadeIds : removeMember(Author, p, "u2")
  \/ Idle /\ Quiet /\ \E p \in CascadeIds : deleteProject(Author, p)
  \/ Idle /\ \E i \in DOMAIN inflight : deleteProjectCascade(i)
  \/ Idle /\ Quiet /\ tasks = <<>> /\
       createTask(Author, 1, [title |-> "task0", description |-> "d0", dueDate |-> 1,
                              project |-> 2, createdBy |-> "u3"])
  \/ Idle /\ \E i \in DOMAIN inflight : createTaskSave(i)
  \/ Idle /\ Quiet /\ \E u \in Users, t \in Ids, b \in FrameTaskBodies :
       updateTask(u, t, b)
  \/ Idle /\ Quiet /\ \E t \in Ids :
       updateTaskStatus("u3", t, [status |-> "Review", position |-> 3, project |-> 2,
                                 isActive |-> TRUE])
  \/ Idle /\ \E i \in DOMAIN inflight : updateTaskStatusSave(i)
  \/ Idle /\ Quiet /\
       bulkUpdatePositions("u3", <<[id |-> 1, position |-> 5, project |-> 2,
                                   createdBy |-> "u3", isActive |-> TRUE]>>)
  \/ Idle /\ Quiet /\ \E t \in Ids : NoComment(t) /\ addComment("u3", t, "c0")
  \/ Idle /\ Quiet /\ \E t \in Ids : deleteTask("u3", t)
  \/ Idle /\ Quiet /\ sprints = <<>> /\
       createSprint(Author, 1, [startDate |-> 1, endDate |-> 2, project |-> 2])
  \/ Idle /\ Quiet /\ \E x \in Ids :
       updateSprint("u3", x, [status |-> "Active", project |-> 2, createdBy |-> "u3",
                             isActive |-> TRUE])
  \/ Idle /\ Quiet /\ \E x \in Ids : deleteSprint("u3", x)
  \/ Idle /\ \E i \in DOMAIN inflight : deleteSprintCascade(i)

SpecFrame == Init /\ [][NextFrame]_vars

----------------------------------------------------------------------------
(* SpecErrors: the routes of Spec and of the notification router, with the *)
(* requests that are refused: a deactivated user, a Team Member on a       *)
(* manager route, an outsider, a missing document, a body the validators   *)
(* refuse, an id that is no ObjectId                                       *)

\* u3 has been deactivated, and u1 has one notification
InitErrors ==
  /\ users = [InitUsers EXCEPT !["u3"].isActive = FALSE]
  /\ notifications = [n \in Ids |-> [user |-> Author, message |-> "m0",
                                     type |-> "info", read |-> FALSE]]
  /\ projects = <<>>
  /\ tasks = <<>>
  /\ sprints = <<>>
  /\ inflight = <<>>
  /\ last = NoResponse

NextErrors ==
  \/ Next
  \/ Idle /\ Quiet /\ \E u \in Users, t \in Ids :
       updateTask(u, t, [status |-> "Done", title |-> "x"])
  \/ Idle /\ Quiet /\ \E u \in Users, p \in Ids :
       sprints = <<>> /\ createSprint(u, p, [startDate |-> 2, endDate |-> 2])
  \/ Idle /\ Quiet /\ \E u \in Users, s \in Ids : updateSprint(u, s, [endDate |-> 3])
  \/ Idle /\ Quiet /\ \E u \in Users :
       bulkUpdatePositions(u, <<[id |-> 1, position |-> 5],
                                [id |-> 0, position |-> 9]>>)
  \/ Idle /\ Quiet /\ \E u \in Users, n \in Ids : markAsRead(u, n)
  \/ Idle /\ Quiet /\ \E u \in Users, n \in Ids : deleteNotification(u, n)

SpecErrors == InitErrors /\ [][NextErrors]_vars

----------------------------------------------------------------------------
(* The claims *)

\* the routes that name a project, a task and a sprint in their path
ProjectRoutes == {"getProject", "getProjectStats", "updateProject", "deleteProject",
                  "addMember", "removeMember", "getTasks", "createTask",
                  "getSprints", "createSprint"}
TaskRoutes == {"getTask", "updateTask", "updateTaskStatus", "deleteTask", "addComment"}
SprintRoutes == {"getSprint", "getSprintStats", "getSprintTasks",
                 "updateSprint", "deleteSprint"}

\* the project that owns the document a request or a response is about,
\* 0 when it is about none
Owner(r) ==
  IF r.op \in ProjectRoutes
  THEN IF r.id \in DOMAIN projects THEN r.id ELSE 0
  ELSE IF r.op \in TaskRoutes
  THEN IF r.id \in DOMAIN tasks THEN tasks[r.id].project ELSE 0
  ELSE IF r.op \in SprintRoutes
  THEN IF r.id \in DOMAIN sprints THEN sprints[r.id].project ELSE 0
  ELSE 0

\* the request that was put in flight by this step, if any
Started == IF Len(inflight') = Len(inflight) + 1 THEN {inflight'[Len(inflight')]} ELSE {}

\* the principal is neither the creator of project p nor in its members
Outsider(u, p) == ~isCreator(projects[p], u) /\ ~isMember(projects[p], u)

\* C1: a request on a project, or on a task or sprint of it, by a principal
\* who is neither the creator of the project nor in its membership list is
\* denied and changes nothing: it is answered 403 with every store as it
\* was, and it is never suspended half done.
C1_ProjectScope ==
  [][Idle =>
       /\ (Owner(last') # 0 /\ Outsider(last'.by, Owner(last')))
          => last'.code = 403 /\ store' = store
       /\ \A r \in Started :
            Owner(r) # 0 => ~Outsider(r.by, Owner(r))]_vars

\* C3: a request by the creator of a project on the project, or on a task
\* or sprint of it, is never answered 401 or 403, whatever the membership
\* list holds.
C3_CreatorAllowed ==
  [][(/\ Idle
      /\ Owner(last') # 0
      /\ isCreator(projects[Owner(last')], last'.by))
     => last'.code \notin {401, 403}]_vars

\* the creator has edited a task of a project whose list has other members
C3_Witness ==
  /\ last.op = "updateTask"
  /\ last.code = 200
  /\ isCreator(projectOf(last.id), last.by)
  /\ Len(projectOf(last.id).members) > 1

\* C2: a manager-only request on a project by a principal whose global role
\* is Project Manager, or who holds the Project Manager project-role in that
\* project, is not turned away by the global role gate.
C2_ManagerGate ==
  [][(/\ Idle
      /\ last'.op \in {"addMember", "removeMember", "updateProject"}
      /\ last'.id \in DOMAIN projects
      /\ \/ isProjectManager(last'.by)
         \/ isPM(projects[last'.id], last'.by))
     => last'.msg # "role"]_vars

\* C4: a deleteProject that is answered 200 on project P has stored
\* P.isActive = false and changed nothing else of any project, and its
\* cascade has set isActive = false on every task of P and changed no other
\* field of them, no task of another project, and no sprint.
C4_DeleteProject ==
  [][Idle =>
       /\ \A r \in Started :
            r.op = "deleteProject" =>
              /\ projects' = [projects EXCEPT ![r.id].isActive = FALSE]
              /\ tasks' = tasks /\ sprints' = sprints
       /\ (last'.op = "deleteProject" /\ last'.code = 200) =>
            /\ ~projects'[last'.id].isActive
            /\ projects' = projects /\ sprints' = sprints
            /\ DOMAIN tasks' = DOMAIN tasks
            /\ \A t \in DOMAIN tasks :
                 /\ tasks[t].project = last'.id =>
                      tasks'[t] = [tasks[t] EXCEPT !.isActive = FALSE]
                 /\ tasks[t].project # last'.id => tasks'[t] = tasks[t]]_vars

\* a project with a task has been deleted while another project has an
\* active task
C4_Witness ==
  /\ last.op = "deleteProject"
  /\ last.code = 200
  /\ \E t, o \in DOMAIN tasks :
       /\ tasks[t].project = last.id /\ ~tasks[t].isActive
       /\ tasks[o].project # last.id /\ tasks[o].isActive

\* C5: a deleteSprint that is answered 200 on sprint S has stored
\* S.isActive = false and changed nothing else of any sprint, and its
\* cascade has cleared the sprint of every task that named S and changed
\* nothing else: no task is removed, no isActive flag changes, and the
\* tasks that named another sprint or none are as they were.
C5_DeleteSprint ==
  [][Idle =>
       /\ \A r \in Started :
            r.op = "deleteSprint" =>
              /\ sprints' = [sprints EXCEPT ![r.id].isActive = FALSE]
              /\ tasks' = tasks /\ projects' = projects
       /\ (last'.op = "deleteSprint" /\ last'.code = 200) =>
            /\ ~sprints'[last'.id].isActive
            /\ sprints' = sprints /\ projects' = projects
            /\ DOMAIN tasks' = DOMAIN tasks
            /\ \A t \in DOMAIN tasks :
                 /\ tasks'[t].isActive = tasks[t].isActive
                 /\ tasks[t].sprint = last'.id =>
                      tasks'[t] = [tasks[t] EXCEPT !.sprint = Null]
                 /\ tasks[t].sprint # last'.id => tasks'[t] = tasks[t]]_vars

\* a sprint has been deleted: a task that was created in it has no sprint
\* now, and a task of the other sprint still names that sprint
C5_Witness ==
  /\ last.op = "deleteSprint"
  /\ last.code = 200
  /\ \E t, o \in DOMAIN tasks :
       /\ tasks[t].title = "task1" /\ last.id = 1 /\ tasks[t].sprint = Null
       /\ tasks[o].title = "task2" /\ tasks[o].sprint = 2

C7_CreatorOnly ==
  [][Idle =>
       /\ (/\ last'.op = "deleteProject"
           /\ last'.id \in DOMAIN projects
           /\ ~isCreator(projects[last'.id], last'.by))
          => last'.code = 403 /\ projects' = projects /\ tasks' = tasks
       /\ \A r \in Started :
            r.op = "deleteProject" => isCreator(projects[r.id], r.by)]_vars

\* a global Project Manager who holds the Project Manager project-role in
\* the project, but did not create it, was refused by the handler while the
\* project and a task of it were active
C7_Witness ==
  /\ last.op = "deleteProject"
  /\ last.code = 403
  /\ last.msg = "creator"
  /\ last.id \in DOMAIN projects
  /\ isPM(projects[last.id], last.by)
  /\ projects[last.id].isActive
  /\ \E t \in DOMAIN tasks : tasks[t].project = last.id /\ tasks[t].isActive

\* C11: createProject by a global Project Manager is answered 201 and
\* stores one new project: its creator is the principal, it is active, its
\* first member is the principal with the Project Manager project-role, the
\* supplied members that do not name the principal follow in their order
\* (with project-role Team Member when they give none), so a request that
\* supplies no member stores exactly one, and its status is Planning unless
\* the body gives one.
C11_CreateProject ==
  [][\A u \in Users, b \in CreateBodies :
       (Idle /\ isProjectManager(u) /\ createProject(u, b))
       => LET P == projects'[Len(projects')]
              ms == get(b, "members", <<>>)
              keep == {i \in DOMAIN ms : ms[i].user # u}
              nth(k) == CHOOSE i \in keep : Cardinality({j \in keep : j <= i}) = k
          IN /\ last'.code = 201
             /\ projects' = Append(projects, P)
             /\ P.createdBy = u
             /\ P.isActive
             /\ P.members[1] = [user |-> u, role |-> PM]
             /\ Len(P.members) = 1 + Cardinality(keep)
             /\ \A k \in 1..Cardinality(keep) :
                  P.members[k + 1] = [user |-> ms[nth(k)].user,
                                      role |-> get(ms[nth(k)], "role", TM)]
             /\ P.status = get(b, "status", "Planning")]_vars

\* a project was created from a members array that names its creator: the
\* creator is listed once, first, and the two others follow
C11_Witness ==
  /\ last.op = "createProject"
  /\ last.code = 201
  /\ last.by = "u3"
  /\ projects[last.id].members = <<[user |-> "u3", role |-> PM],
                                   [user |-> "u2", role |-> TM],
                                   [user |-> "u1", role |-> TM]>>
  /\ projects[last.id].status = "Planning"

\* C12: a createTask that is answered 201, with no other request between
\* its read and its write, appends one task to the project it names; the
\* position of the new task is 0 when the project had no task, else one
\* more than the highest position among the tasks of the project, active or
\* not, so it is above the position of each of them.
C12_NextPosition ==
  [][(Idle /\ last'.op = "createTask" /\ last'.code = 201)
     => LET p == last'.id
            new == tasks'[Len(tasks')]
            mine == {t \in DOMAIN tasks : tasks[t].project = p}
        IN /\ tasks' = Append(tasks, new)
           /\ new.project = p
           /\ mine = {} => new.position = 0
           /\ \A t \in mine : new.position > tasks[t].position
           /\ mine # {} =>
                \E t \in mine : new.position = tasks[t].position + 1]_vars

\* a second task was created in a project whose first task had been moved
\* to position 5
C12_Witness ==
  /\ last.op = "createTask"
  /\ last.code = 201
  /\ Len(tasks) = 2
  /\ tasks[1].project = tasks[2].project
  /\ tasks[1].position = 5
  /\ tasks[2].position = 6

\* C13: markAsRead and deleteNotification change nothing but the
\* notification they name, and that only when its recipient is the
\* principal: a request that names a notification of another user, whatever
\* the role of the principal, is answered 404 with every notification as it
\* was; markAllAsRead sets the read flag of the principal's notifications
\* and changes nothing else.
C13_OwnNotifications ==
  [][(Idle /\ last'.op \in {"markAsRead", "deleteNotification", "markAllAsRead"})
     => /\ \A n \in DOMAIN notifications :
             notifications[n].user # last'.by =>
               n \in DOMAIN notifications' /\ notifications'[n] = notifications[n]
        /\ \A n \in DOMAIN notifications' :
             /\ n \in DOMAIN notifications
             /\ notifications'[n] \in {notifications[n],
                                       [notifications[n] EXCEPT !.read = TRUE]}
        /\ (/\ last'.op # "markAllAsRead"
            /\ last'.id \in DOMAIN notifications
            /\ notifications[last'.id].user # last'.by)
           => last'.code = 404 /\ notifications' = notifications
        /\ last'.op # "markAllAsRead" =>
             \A n \in DOMAIN notifications \ {last'.id} :
               n \in DOMAIN notifications' /\ notifications'[n] = notifications[n]
        /\ last'.op # "deleteNotification" =>
             DOMAIN notifications' = DOMAIN notifications]_vars

\* a global Project Manager asked to delete an unread notification of
\* another user and was answered 404, the notification still stored
C13_Witness ==
  /\ last.op = "deleteNotification"
  /\ last.code = 404
  /\ isProjectManager(last.by)
  /\ last.id \in DOMAIN notifications
  /\ notifications[last.id].user # last.by
  /\ ~notifications[last.id].read

\* C14: bulkUpdatePositions stores, for every item of its list whose id
\* names a task, the position of the item, and its status when it gives
\* one, whether or not another item of the list fails (its id is no
\* ObjectId) or names no task; nothing else of any task changes.
C14_BulkIndependent ==
  [][\A b \in BulkBodies :
       (Idle /\ bulkUpdatePositions(Author, b))
       => /\ DOMAIN tasks' = DOMAIN tasks
          /\ \A i \in DOMAIN b :
               b[i].id \in DOMAIN tasks =>
                 tasks'[b[i].id] =
                   [tasks[b[i].id] EXCEPT !.position = b[i].position,
                                          !.status = get(b[i], "status", @)]
          /\ \A t \in DOMAIN tasks :
               (\A i \in DOMAIN b : b[i].id # t) => tasks'[t] = tasks[t]]_vars

\* the request failed on the item whose id is no ObjectId, and the task of
\* the other item has the position that item gave
C14_Witness ==
  /\ last.op = "bulkUpdatePositions"
  /\ last.msg = "cast"
  /\ last.code # 200
  /\ 2 \in DOMAIN tasks
  /\ tasks[2].position = 20

\* C15: a createSprint request that reaches the handler for a stored
\* project is answered 201 and stores one sprint with the dates of the body
\* when the end date is after the start date, and is answered with an error
\* and stores nothing when the end date is equal to the start date or
\* before it.
C15_CreateSprintDates ==
  [][\A u \in Users, p \in Ids, b \in SprintBodies :
       (/\ Idle
        /\ isProjectManager(u)
        /\ p \in DOMAIN projects
        /\ createSprint(u, p, b))
       => IF b.endDate > b.startDate
          THEN /\ last'.code = 201
               /\ Len(sprints') = Len(sprints) + 1
               /\ SubSeq(sprints', 1, Len(sprints)) = sprints
               /\ sprints'[Len(sprints')].startDate = b.startDate
               /\ sprints'[Len(sprints')].endDate = b.endDate
               /\ sprints'[Len(sprints')].project = p
          ELSE /\ last'.code \in {400, 500}
               /\ sprints' = sprints]_vars

\* a createSprint request for the stored project was refused by the
\* validator, and no sprint is stored
C15_Witness ==
  /\ last.op = "createSprint"
  /\ last.msg = "validation"
  /\ last.id \in DOMAIN projects
  /\ sprints = <<>>

C18_PartialFailure ==
  [][\A i \in DOMAIN inflight :
       (deleteProjectCascadeFails(i) \/ deleteSprintCascadeFails(i)) =>
         last' # Thrown(inflight[i].op, inflight[i].by, inflight[i].id,
                        "MongoError")]_vars

\* the document the answer r is about is stored with its isActive flag
\* cleared
SoftDeleted(r) ==
  IF r.op \in ProjectRoutes
  THEN r.id \in DOMAIN projects /\ ~projects[r.id].isActive
  ELSE IF r.op \in TaskRoutes
  THEN r.id \in DOMAIN tasks /\ ~tasks[r.id].isActive
  ELSE IF r.op \in SprintRoutes
  THEN r.id \in DOMAIN sprints /\ ~sprints[r.id].isActive
  ELSE FALSE

\* C19: a request that names by id a project, task or sprint that has been
\* soft-deleted is answered 404 Not Found, as for a document that was never
\* stored, once it is past the middleware.
C19_DeletedNotFound ==
  [][(/\ Idle
      /\ Quiet
      /\ SoftDeleted(last')
      /\ last'.msg \notin {RouteMsg(401), RouteMsg(403)})
     => last'.code = 404]_vars

C23_LastWriteWins ==
  [][\A i \in DOMAIN inflight :
       (Idle /\ updateTaskStatusSave(i)) =>
          /\ tasks'[inflight[i].id].status = inflight[i].arg.status
          /\ tasks'[inflight[i].id].position = inflight[i].arg.position
          /\ last'.code = 200
          /\ \A t \in DOMAIN tasks \ {inflight[i].id} : tasks'[t] = tasks[t]]_vars

\* C24: the dashboard of a principal who created no active project and is
\* a member of none is answered 200 with every count and both rates 0 and
\* with no status or priority group.
C24_EmptyDashboard ==
  (last.op = "getDashboardAnalytics" /\ userProjects(last.by) = {}) =>
    last.code = 200 /\ last.overview = NoOverview

\* C25: when no request is between its steps, every active task belongs to
\* an active project
C25_ActiveTaskActiveProject ==
  Quiet =>
    \A t \in DOMAIN tasks :
      tasks[t].isActive => projects[tasks[t].project].isActive

\* C26: the creator of every project is in its membership list with the
\* project role Project Manager, whatever createProject, addMember,
\* removeMember and updateProject requests have run and however they
\* interleave
C26_CreatorIsManager ==
  \A p \in DOMAIN projects :
    \E i \in DOMAIN projects[p].members :
      projects[p].members[i] = [user |-> projects[p].createdBy, role |-> PM]

\* a removal was answered 200 on a project that had been given members, and
\* the creator is the only member left
C26_Witness ==
  /\ last.op = "removeMember"
  /\ last.code = 200
  /\ last.id \in DOMAIN projects
  /\ last.about # projects[last.id].createdBy
  /\ projects[last.id].members =
       <<[user |-> projects[last.id].createdBy, role |-> PM]>>

\* C27: when no request is between its steps, no task names a sprint that
\* has been soft-deleted
C27_NoTaskInDeletedSprint ==
  Quiet =>
    \A t \in DOMAIN tasks :
      tasks[t].sprint \in DOMAIN sprints => sprints[tasks[t].sprint].isActive

\* C28: a project, a task or a sprint that is soft-deleted stays
\* soft-deleted, and no step removes a project, a task or a sprint.
C28_SoftDeleteIrreversible ==
  [][/\ \A p \in DOMAIN projects :
          p \in DOMAIN projects' /\ (~projects[p].isActive => ~projects'[p].isActive)
     /\ \A t \in DOMAIN tasks :
          t \in DOMAIN tasks' /\ (~tasks[t].isActive => ~tasks'[t].isActive)
     /\ \A x \in DOMAIN sprints :
          x \in DOMAIN sprints' /\ (~sprints[x].isActive => ~sprints'[x].isActive)]_vars

\* updateProject with a body that asks for isActive: true was answered 200
\* on a deleted project whose task and sprint are deleted too: all three
\* are still stored and still inactive
C28_Witness ==
  /\ last.op = "updateProject"
  /\ last.code = 200
  /\ ~projects[last.id].isActive
  /\ projects[last.id].status = "Active"
  /\ \E t \in DOMAIN tasks : tasks[t].project = last.id /\ ~tasks[t].isActive
  /\ \E x \in DOMAIN sprints : sprints[x].project = last.id /\ ~sprints[x].isActive

\* C29: the tasks that createTask requests have created in a project have
\* positions that differ from one another, however the reads and the writes
\* of the requests interleave
C29_DistinctPositions ==
  \A t, o \in DOMAIN tasks :
    (t # o /\ tasks[t].project = tasks[o].project) =>
      tasks[t].position # tasks[o].position

\* C30: a request to a protected route whose token names a deactivated
\* user is answered 401 and changes nothing, so no request of a deactivated
\* user gets past protect to its handler; a login for a deactivated user
\* is answered 401 without a token and changes nothing.
C30_InactiveRefused ==
  [][Idle =>
       /\ \A r \in Started : users[r.by].isActive
       /\ (last' # NoResponse /\ inflight' = inflight /\ last'.op # "login"
             /\ ~users[last'.by].isActive) =>
            last'.code = 401 /\ store' = store
       /\ (last'.op = "login" /\ last'.about \in DOMAIN users
             /\ ~users[last'.about].isActive) =>
            last'.code = 401 /\ last'.msg # "token" /\ store' = store]_vars

\* a user who created a project while active has been deactivated, and the
\* next request for that project with the same token is answered 401
C30_Witness ==
  /\ last.op = "getProject"
  /\ last.code = 401
  /\ ~users[last.by].isActive
  /\ last.id \in DOMAIN projects
  /\ projects[last.id].createdBy = last.by

\* the tasks a statistics answer is about
Counted(r) ==
  IF r.op = "getProjectStats" THEN projectTasks(r.id)
  ELSE IF r.op = "getSprintStats" THEN sprintTasks(r.id)
  ELSE dashboardTasks(r.by)

\* C16: the completion rate a statistics route reports is 0 when no task
\* is counted, and else 100 * completed / total rounded to the nearest
\* integer (a half rounds up); it lies in 0..100.
C16_CompletionRate ==
  (last.code = 200 /\ last.op \in {"getProjectStats", "getSprintStats",
                                   "getDashboardAnalytics"}) =>
    LET total == Cardinality(Counted(last))
        completed == Cardinality(Done(Counted(last)))
    IN /\ last.data \in 0..100
       /\ last.data = IF total = 0 THEN 0
                      ELSE (200 * completed + total) \div (2 * total)

\* C20: every stored sprint has its end date after its start date.
C20_SprintDates ==
  \A s \in DOMAIN sprints : sprints[s].endDate > sprints[s].startDate

\* `new` is `old` without the entries of user t: the other entries, each
\* as it was and in the order they had
RemovedFrom(old, new, t) ==
  LET keep == {i \in DOMAIN old : old[i].user # t}
      nth(k) == CHOOSE i \in keep : Cardinality({j \in keep : j <= i}) = k
  IN /\ DOMAIN new = 1..Cardinality(keep)
     /\ \A k \in DOMAIN new : new[k] = old[nth(k)]

\* C8: removeMember never removes the creator of the project, whoever asks,
\* and leaves the project as it was then; a removal that is answered 200
\* stores the previous list without the entries of the target, and changes
\* nothing else of the project.
C8_RemoveMember ==
  [][(Idle /\ last'.op = "removeMember" /\ last'.id \in DOMAIN projects)
     => LET p == last'.id
            t == last'.about
        IN /\ t = projects[p].createdBy =>
                last'.code \in {400, 403} /\ projects' = projects
           /\ last'.code # 200 => projects' = projects
           /\ last'.code = 200 =>
                /\ RemovedFrom(projects[p].members, projects'[p].members, t)
                /\ projects' = [projects EXCEPT ![p].members = projects'[p].members]]_vars

\* the creator asked to be removed and was refused
C8_Witness ==
  /\ last.op = "removeMember"
  /\ last.id \in DOMAIN projects
  /\ last.about = projects[last.id].createdBy
  /\ last.by = projects[last.id].createdBy
  /\ last.code = 400
  /\ Len(projects[last.id].members) > 1

\* C9: an addMember request for a user who is in the membership list when
\* the handler checks is answered with an error (400, the conflict, when the
\* principal may add members) and changes nothing, and no such request gets
\* past the check; an addMember that is answered 200 has appended exactly one
\* entry, for the user it names, and changed nothing else of the project.
C9_AddMember ==
  [][Idle =>
       /\ (/\ last'.op = "addMember"
           /\ inflight' = inflight
           /\ last'.id \in DOMAIN projects
           /\ isMember(projects[last'.id], last'.about))
          => /\ last'.code \in {400, 403}
             /\ (isCreator(projects[last'.id], last'.by)
                   \/ isPM(projects[last'.id], last'.by))
                 /\ isProjectManager(last'.by) => last'.code = 400
             /\ projects' = projects
       /\ \A r \in Started :
            r.op = "addMember" =>
              ~isMember(projects[r.id], r.arg.user) /\ projects' = projects
       /\ (last'.op = "addMember" /\ last'.code = 200)
          => LET p == last'.id
                 new == projects'[p].members
             IN /\ Len(new) = Len(projects[p].members) + 1
                /\ SubSeq(new, 1, Len(new) - 1) = projects[p].members
                /\ new[Len(new)].user = last'.about
                /\ projects' = [projects EXCEPT ![p].members = new]]_vars

\* a member was named again and the request was refused as a conflict
C9_Witness ==
  /\ last.op = "addMember"
  /\ last.code = 400
  /\ last.msg = "already"
  /\ last.about # projects[last.id].createdBy
  /\ isMember(projects[last.id], last.about)

\* C10: each user appears at most once in the membership list of each
\* project.
C10_MemberOnce ==
  \A p \in DOMAIN projects :
    \A i, j \in DOMAIN projects[p].members :
      i # j => projects[p].members[i].user # projects[p].members[j].user

\* the same, for the lists that addMember and removeMember alone make of a
\* duplicate-free list: two addMember requests in flight for one user
C10_AddRace ==
  [][(/\ C10_MemberOnce
      /\ Idle
      /\ last'.op = "addMember")
     => C10_MemberOnce']_vars

====
